---- MODULE Spec2Model ----
(***************************************************************************)
(* Model of the taxi simulation: the quadtree package (Insert, subDivide,  *)
(* Query) and the Simulation of main.go (Driver.Move, RebuildQuadtree,     *)
(* QueryNearbyDrivers and their callers).                                  *)
(*                                                                         *)
(* float64 coordinates are modelled in fixed point: an integer n stands    *)
(* for n/Scale, and a halving that is no longer representable rounds down. *)
(***************************************************************************)
EXTENDS Integers, Sequences, FiniteSets, TLC

VARIABLES
    qt,         \* quadtree under test: path from the root |-> node
    inserted,   \* points for which Insert returned true, in call order
    lastInsert, \* the last Insert call: its number, its point, its result
    lastAll,    \* the InsertAll calls: their number, the points of the last one
    results,    \* the slice returned by the last QueryResults call
    qbounds,    \* the bounds passed to the last QueryResults call
    crashed,    \* "no", or how the process died ("overflow", "panic")
    driver,     \* a Driver on which Move is called
    lastMove,   \* the last Move of driver: whether it found the driver Offline,
                \* the edges of the world its candidate position was near
    drivers,    \* Simulation.drivers: index |-> Driver
    dmu,        \* Driver.mu of each driver: the goroutine holding it, or ""
    quadtree,   \* Simulation.quadtree: the published instance and its tree
    quadtreeMu, \* Simulation.quadtreeMu: writer, readers, waiting writers
    stats,      \* Simulation.stats
    statsMu,    \* Simulation.statsMu: the goroutine holding it, or ""
    rebuildCount, \* Simulation.rebuildCount
    run,        \* locals of the Run goroutine: loop index, tree being built, counts
    proc,       \* goroutine |-> its position and the locals of its query
    hist,       \* index |-> the values the driver has had between Move calls
    client,     \* a WebSocketClient: its mu (a pointer) and the mutexes that are held
    resultsPool \* quadtree.resultsPool: the buffers made so far, and those in the pool

treeVars == <<qt, inserted, lastInsert, lastAll, results, qbounds>>

qtVars == <<treeVars, crashed>>

moveVars == <<driver, lastMove>>

simVars == <<drivers, dmu, quadtree, quadtreeMu, stats, statsMu, rebuildCount,
             run, proc, hist, client, resultsPool>>

vars == <<qtVars, moveVars, simVars>>

----------------------------------------------------------------------------
(* Bounds of the model *)

Scale == 2          \* fixed-point units per coordinate unit
MaxInserts == 5     \* Insert calls per behaviour
MaxStack == 8       \* nested Insert frames the goroutine stack can hold
MaxTicks == 1       \* update ticks of the Run loop
MaxRebuilds == 1    \* rebuild ticks of the Run loop
MaxRunQueries == 1  \* query ticks of the Run loop
MaxRequests == 1    \* requests served by each handler goroutine
MaxInsertAlls == 1  \* InsertAll calls per behaviour

----------------------------------------------------------------------------
(* quadtree package *)

Pt(x, y) == [X |-> x, Y |-> y]

Bounds(minX, minY, maxX, maxY) ==
    [MinX |-> minX, MinY |-> minY, MaxX |-> maxX, MaxY |-> maxY]

\* mutant: the edges of the rectangle are left out
contains_open(b, x, y) ==
    x > b.MinX /\ x < b.MaxX /\ y > b.MinY /\ y < b.MaxY

contains(b, x, y) ==
    x >= b.MinX /\ x <= b.MaxX /\ y >= b.MinY /\ y <= b.MaxY

\* a node of the tree; its four child pointers are the paths that extend its own
New(bounds, capcity) ==
    [capacity |-> capcity, nodes |-> <<>>, bounds |-> bounds, divided |-> FALSE]

NewTree(bounds, capcity) == (<<>> :> New(bounds, capcity))

\* mutant: a point on an edge of the node's bounds is taken to be outside
InsideBounds_open(b, x, y) ==
    x > b.MinX /\ x < b.MaxX /\ y > b.MinY /\ y < b.MaxY

InsideBounds(b, x, y) ==
    x >= b.MinX /\ x <= b.MaxX /\ y >= b.MinY /\ y <= b.MaxY

\* mutant: rectangles that only touch are taken to be disjoint
Intersects_open(nb, b) ==
    ~(b.MaxX <= nb.MinX \/ b.MinX >= nb.MaxX \/ b.MinY >= nb.MaxY \/ b.MaxY <= nb.MinY)

Intersects(nb, b) ==
    ~(b.MaxX < nb.MinX \/ b.MinX > nb.MaxX \/ b.MinY > nb.MaxY \/ b.MaxY < nb.MinY)

\* (a + b) / 2 in fixed point
Mid(a, b) == (a + b) \div 2

Ret(t, ok, how) == [t |-> t, ok |-> ok, how |-> how]

RECURSIVE Insert(_, _, _, _)
RECURSIVE insertIntoChild(_, _, _, _)
RECURSIVE redistribute(_, _, _, _)
RECURSIVE redistribute_keep(_, _, _, _)
RECURSIVE InsertAll(_, _, _)

\* mutant: a point on a midline goes to the east / north child
childOf_tieEast(b, node) ==
    LET midX == Mid(b.MinX, b.MaxX)
        midY == Mid(b.MinY, b.MaxY)
    IN  IF node.X < midX
        THEN IF node.Y < midY THEN "southWest" ELSE "northWest"
        ELSE IF node.Y < midY THEN "southEast" ELSE "northEast"

\* mutant: a point on the horizontal midline goes to the north child
childOf_tieNorth(b, node) ==
    LET midX == Mid(b.MinX, b.MaxX)
        midY == Mid(b.MinY, b.MaxY)
    IN  IF node.X <= midX
        THEN IF node.Y < midY THEN "southWest" ELSE "northWest"
        ELSE IF node.Y < midY THEN "southEast" ELSE "northEast"

\* the child insertIntoChild selects for node in a node of bounds b
childOf(b, node) ==
    LET midX == Mid(b.MinX, b.MaxX)
        midY == Mid(b.MinY, b.MaxY)
    IN  IF node.X <= midX
        THEN IF node.Y <= midY THEN "southWest" ELSE "northWest"
        ELSE IF node.Y <= midY THEN "southEast" ELSE "northEast"

\* In insertIntoChild, redistribute, subDivide and Insert the result of a
\* call is bound as the element of a one-element set: it is the value of the
\* call, evaluated once.
insertIntoChild(t, path, node, depth) ==
    CHOOSE ret \in
      { Insert(t, child, node, depth + 1)
        : child \in {Append(path, childOf(t[path].bounds, node))} } : TRUE

\* mutant: the parent's points are not cleared after the redistribution
redistribute_keep(t, path, i, depth) ==
    IF i > Len(t[path].nodes)
    THEN Ret(t, TRUE, "no")
    ELSE LET r == insertIntoChild(t, path, t[path].nodes[i], depth)
         IN  IF r.how # "no" THEN r
             ELSE IF ~r.ok THEN Ret(r.t, FALSE, "panic")
             ELSE redistribute_keep(r.t, path, i + 1, depth)

\* the loop of subDivide over qt.nodes, from index i on, then qt.nodes = nil
redistribute(t, path, i, depth) ==
    IF i > Len(t[path].nodes)
    THEN Ret([t EXCEPT ![path].nodes = <<>>], TRUE, "no")
    ELSE CHOOSE ret \in
           { IF r.how # "no" THEN r
             ELSE IF ~r.ok THEN Ret(r.t, FALSE, "panic")
             ELSE redistribute(r.t, path, i + 1, depth)
             : r \in {insertIntoChild(t, path, t[path].nodes[i], depth)} } : TRUE

\* mutant: the node is divided but keeps its points, none is redistributed
subDivide_noMove(t, path, depth) ==
    LET b == t[path].bounds
        c == t[path].capacity
        midX == Mid(b.MinX, b.MaxX)
        midY == Mid(b.MinY, b.MaxY)
    IN  Ret((Append(path, "northWest") :> New(Bounds(b.MinX, midY, midX, b.MaxY), c))
            @@ (Append(path, "northEast") :> New(Bounds(midX, midY, b.MaxX, b.MaxY), c))
            @@ (Append(path, "southWest") :> New(Bounds(b.MinX, b.MinY, midX, midY), c))
            @@ (Append(path, "southEast") :> New(Bounds(midX, b.MinY, b.MaxX, midY), c))
            @@ [t EXCEPT ![path].divided = TRUE], TRUE, "no")

\* mutant: the north-west child reaches down to the parent's south edge
subDivide_overlap(t, path, depth) ==
    LET b == t[path].bounds
        c == t[path].capacity
        midX == Mid(b.MinX, b.MaxX)
        midY == Mid(b.MinY, b.MaxY)
    IN  CHOOSE ret \in
          { redistribute(t1, path, 1, depth) : t1 \in
            { (Append(path, "northWest") :> New(Bounds(b.MinX, b.MinY, midX, b.MaxY), c))
              @@ (Append(path, "northEast") :> New(Bounds(midX, midY, b.MaxX, b.MaxY), c))
              @@ (Append(path, "southWest") :> New(Bounds(b.MinX, b.MinY, midX, midY), c))
              @@ (Append(path, "southEast") :> New(Bounds(midX, b.MinY, b.MaxX, midY), c))
              @@ [t EXCEPT ![path].divided = TRUE] } } : TRUE

subDivide(t, path, depth) ==
    LET b == t[path].bounds
        c == t[path].capacity
        midX == Mid(b.MinX, b.MaxX)
        midY == Mid(b.MinY, b.MaxY)
    IN  CHOOSE ret \in
          { redistribute(t1, path, 1, depth) : t1 \in
            { (Append(path, "northWest") :> New(Bounds(b.MinX, midY, midX, b.MaxY), c))
              @@ (Append(path, "northEast") :> New(Bounds(midX, midY, b.MaxX, b.MaxY), c))
              @@ (Append(path, "southWest") :> New(Bounds(b.MinX, b.MinY, midX, midY), c))
              @@ (Append(path, "southEast") :> New(Bounds(midX, b.MinY, b.MaxX, midY), c))
              @@ [t EXCEPT ![path].divided = TRUE] } } : TRUE

\* mutant: the capacity test is off by one
Insert_offByOne(t, path, node, depth) ==
    IF depth > MaxStack THEN Ret(t, FALSE, "overflow")
    ELSE IF ~InsideBounds(t[path].bounds, node.X, node.Y) THEN Ret(t, FALSE, "no")
    ELSE IF Len(t[path].nodes) <= t[path].capacity /\ ~t[path].divided
         THEN Ret([t EXCEPT ![path].nodes = Append(@, node)], TRUE, "no")
    ELSE LET s == IF ~t[path].divided THEN subDivide(t, path, depth)
                  ELSE Ret(t, TRUE, "no")
         IN  IF s.how # "no" THEN s
             ELSE insertIntoChild(s.t, path, node, depth)

Insert(t, path, node, depth) ==
    IF depth > MaxStack THEN Ret(t, FALSE, "overflow")
    ELSE IF ~InsideBounds(t[path].bounds, node.X, node.Y) THEN Ret(t, FALSE, "no")
    ELSE IF Len(t[path].nodes) < t[path].capacity /\ ~t[path].divided
         THEN Ret([t EXCEPT ![path].nodes = Append(@, node)], TRUE, "no")
    ELSE CHOOSE ret \in
           { IF s.how # "no" THEN s
             ELSE insertIntoChild(s.t, path, node, depth)
             : s \in {IF ~t[path].divided THEN subDivide(t, path, depth)
                      ELSE Ret(t, TRUE, "no")} } : TRUE

\* qt.InsertAll(points) from point i on: Insert of each point in turn, the
\* result of Insert ignored
InsertAll(t, points, i) ==
    IF i > Len(points) THEN Ret(t, TRUE, "no")
    ELSE LET r == Insert(t, <<>>, points[i], 0)
         IN  IF r.how # "no" THEN r ELSE InsertAll(r.t, points, i + 1)

RECURSIVE Query(_, _, _, _)
Query(t, path, bounds, res) ==
    IF ~Intersects(t[path].bounds, bounds) THEN res
    ELSE LET own == SelectSeq(t[path].nodes, LAMBDA n : contains(bounds, n.X, n.Y))
             r0 == res \o own
         IN  IF t[path].divided
             THEN LET r1 == Query(t, Append(path, "northWest"), bounds, r0)
                      r2 == Query(t, Append(path, "northEast"), bounds, r1)
                      r3 == Query(t, Append(path, "southWest"), bounds, r2)
                  IN  Query(t, Append(path, "southEast"), bounds, r3)
             ELSE r0

QueryResults(t, bounds) == Query(t, <<>>, bounds, <<>>)

----------------------------------------------------------------------------
(* main.go: constants, in fixed point                                       *)
(* positions and speeds are integers, a heading h stands for h * pi/4, a    *)
(* value of r.Float64() and a probability are given in hundredths           *)

minLon == 0
minLat == 0
maxLon == 10
maxLat == 8
minSpeed == 2
maxSpeed == 4
driverStatusProbs == 70
turnProbability == 5
turnMaxAngle == 2
accelerationProb == 5
accelerationMax == 50
boundaryBuffer == 1
statusChangeProb == 1

Available == 0
Busy == 1
Offline == 2

Pi == 4

\* the values r.Float64() takes, in hundredths
Rand == {0, 30, 75, 95}

\* the values deltaTime takes
DeltaTimes == {-1, 0, 1, 3}

\* math.Sin and math.Cos of a heading, rounded to an integer
Sin(h) == CASE h % (2 * Pi) \in {1, 2, 3} -> 1
            [] h % (2 * Pi) \in {5, 6, 7} -> -1
            [] OTHER -> 0

Cos(h) == CASE h % (2 * Pi) \in {7, 0, 1} -> 1
            [] h % (2 * Pi) \in {3, 4, 5} -> -1
            [] OTHER -> 0

\* r * x for a draw r
Frac(r, x) == (r * x) \div 100

Driver(id, lon, lat, status, speed, heading) ==
    [ID |-> id, Lon |-> lon, Lat |-> lat, Status |-> status,
     Speed |-> speed, Heading |-> heading]

NoDriver == Driver(0, 0, 0, Offline, 0, 0)

NoMove == [called |-> FALSE, offline |-> FALSE, near |-> {}]

\* Move, lines 122-134: the random turn and the wrap of the heading
turn(d, r1, r2) ==
    IF r1 < turnProbability
    THEN LET turnAmount == Frac(r2 * 2 - 100, turnMaxAngle)
             h == d.Heading + turnAmount
         IN  [d EXCEPT !.Heading = IF h < 0 THEN h + 2 * Pi
                                   ELSE IF h > 2 * Pi THEN h - 2 * Pi
                                   ELSE h]
    ELSE d

\* mutant: the new speed is not clamped
accelerate_noClamp(d, r1, r2) ==
    IF r1 < accelerationProb
    THEN LET speedChange == 100 + Frac(r2 * 2 - 100, accelerationMax)
         IN  [d EXCEPT !.Speed = Frac(speedChange, d.Speed)]
    ELSE d

\* Move, lines 136-148: the random speed change and its clamp
accelerate(d, r1, r2) ==
    IF r1 < accelerationProb
    THEN LET speedChange == 100 + Frac(r2 * 2 - 100, accelerationMax)
             sp == Frac(speedChange, d.Speed)
         IN  [d EXCEPT !.Speed = IF sp < minSpeed THEN minSpeed
                                 ELSE IF sp > maxSpeed THEN maxSpeed
                                 ELSE sp]
    ELSE d

\* Move, lines 150-175: the candidate position and the boundary avoidance
avoidBoundary(d, deltaTime, r1, r2) ==
    LET newLon == d.Lon + Sin(d.Heading) * d.Speed * deltaTime
        newLat == d.Lat + Cos(d.Heading) * d.Speed * deltaTime
        h1 == IF newLon < minLon + boundaryBuffer THEN Frac(r1, Pi)
              ELSE IF newLon > maxLon - boundaryBuffer THEN Pi + Frac(r1, Pi)
              ELSE d.Heading
        h2 == IF newLat < minLat + boundaryBuffer THEN (Pi * 3) \div 2 + Frac(r2, Pi)
              ELSE IF newLat > maxLat - boundaryBuffer THEN Frac(r2, Pi)
              ELSE h1
    IN  [d EXCEPT !.Heading = h2]

\* Move, lines 150-174: the edges of the world within boundaryBuffer of which
\* the candidate position of d lies
nearEdges(d, deltaTime) ==
    LET newLon == d.Lon + Sin(d.Heading) * d.Speed * deltaTime
        newLat == d.Lat + Cos(d.Heading) * d.Speed * deltaTime
    IN  (IF newLon < minLon + boundaryBuffer THEN {"west"}
         ELSE IF newLon > maxLon - boundaryBuffer THEN {"east"} ELSE {})
        \cup
        (IF newLat < minLat + boundaryBuffer THEN {"south"}
         ELSE IF newLat > maxLat - boundaryBuffer THEN {"north"} ELSE {})

\* mutant: the final position is not clamped into the world
place_noClamp(d, deltaTime) ==
    [d EXCEPT !.Lon = d.Lon + Sin(d.Heading) * d.Speed * deltaTime,
              !.Lat = d.Lat + Cos(d.Heading) * d.Speed * deltaTime]

\* mutant: the displacement is not scaled by the speed
place_noSpeed(d, deltaTime) ==
    LET newLon == d.Lon + Sin(d.Heading) * deltaTime
        newLat == d.Lat + Cos(d.Heading) * deltaTime
    IN  [d EXCEPT !.Lon = IF newLon < minLon THEN minLon
                          ELSE IF newLon > maxLon THEN maxLon
                          ELSE newLon,
                  !.Lat = IF newLat < minLat THEN minLat
                          ELSE IF newLat > maxLat THEN maxLat
                          ELSE newLat]

\* Move, lines 177-198: the position from the final heading, clamped
place(d, deltaTime) ==
    LET newLon == d.Lon + Sin(d.Heading) * d.Speed * deltaTime
        newLat == d.Lat + Cos(d.Heading) * d.Speed * deltaTime
    IN  [d EXCEPT !.Lon = IF newLon < minLon THEN minLon
                          ELSE IF newLon > maxLon THEN maxLon
                          ELSE newLon,
                  !.Lat = IF newLat < minLat THEN minLat
                          ELSE IF newLat > maxLat THEN maxLat
                          ELSE newLat]

\* Move, lines 200-210: the occasional status change
changeStatus(d, r1, r2) ==
    IF r1 < statusChangeProb
    THEN [d EXCEPT !.Status = IF r2 < driverStatusProbs THEN Available
                              ELSE IF r2 < driverStatusProbs + 20 THEN Busy
                              ELSE Offline]
    ELSE d

\* mutant: Move without its early return for an Offline driver
Move_moveOffline(d, deltaTime, R) ==
    LET turned == {turn(d, r1, r2) : r1 \in R, r2 \in R}
        sped == UNION {{accelerate(x, r1, r2) : r1 \in R, r2 \in R} : x \in turned}
        headed == UNION {{avoidBoundary(x, deltaTime, r1, r2) : r1 \in R, r2 \in R} : x \in sped}
        placed == {place(x, deltaTime) : x \in headed}
    IN  UNION {{changeStatus(x, r1, r2) : r1 \in R, r2 \in R} : x \in placed}

\* d.Move(deltaTime, r): the drivers one call can leave, over all draws that
\* r.Float64() takes from R (two draws for each stage that draws)
Move(d, deltaTime, R) ==
    IF d.Status = Offline THEN {d}
    ELSE LET turned == {turn(d, r1, r2) : r1 \in R, r2 \in R}
             sped == UNION {{accelerate(x, r1, r2) : r1 \in R, r2 \in R} : x \in turned}
             headed == UNION {{avoidBoundary(x, deltaTime, r1, r2) : r1 \in R, r2 \in R} : x \in sped}
             placed == {place(x, deltaTime) : x \in headed}
         IN  UNION {{changeStatus(x, r1, r2) : r1 \in R, r2 \in R} : x \in placed}

\* main.go: cities[0], Erbil, in the east and south of the world
cityLon == 7
cityLat == 3
cityRadius == 2

\* NewSimulation, lines 280-315: driver i from its five draws
NewDriver(i, rAngle, rDist, rStatus, rSpeed, rHeading) ==
    LET angle == Frac(rAngle, 2 * Pi)
        distance == Frac(10 + Frac(rDist, 50), cityRadius * 10) \div 10
    IN  Driver(i + 1,
               cityLon + Sin(angle) * distance,
               cityLat + Cos(angle) * distance,
               IF rStatus < driverStatusProbs THEN Available
               ELSE IF rStatus < driverStatusProbs + 20 THEN Busy
               ELSE Offline,
               minSpeed + Frac(rSpeed, maxSpeed - minSpeed),
               Frac(rHeading, 2 * Pi))

NewDrivers(i) ==
    {NewDriver(i, r1, r2, r3, r4, r5) :
        r1 \in Rand, r2 \in Rand, r3 \in Rand, r4 \in Rand, r5 \in Rand}

----------------------------------------------------------------------------
(* Specifications *)

\* HandleWebSocket, lines 585-588: a client as it is created, its mu nil
NoClient == [mu |-> "nil", held |-> {}]

\* resultsPool before its first Get: no buffer has been made
NoBuffers == [data |-> <<>>, free |-> {}]

\* the Simulation is not running
SimIdle ==
    /\ drivers = <<>>
    /\ dmu = <<>>
    /\ quadtree = [id |-> 0, t |-> <<>>, src |-> <<>>]
    /\ quadtreeMu = [w |-> "", r |-> {}, ww |-> {}]
    /\ stats = [TotalQueries |-> 0, TotalDriversFound |-> 0]
    /\ statsMu = ""
    /\ rebuildCount = 0
    /\ run = [i |-> 0, qt |-> [id |-> -1, t |-> <<>>, src |-> <<>>], ticks |-> 0,
              queries |-> 0, u |-> 0, lat |-> 0, stop |-> FALSE]
    /\ proc = <<>>
    /\ hist = <<>>
    /\ client = NoClient
    /\ resultsPool = NoBuffers

----------------------------------------------------------------------------
(* A quadtree driven by its exported methods: New, then Insert and          *)
(* QueryResults calls in any order.                                         *)

\* the world of the quadtree under test, (0,0)-(10,10)
TestBounds == Bounds(0, 0, 10 * Scale, 10 * Scale)

P(x, y) == Pt(x * Scale, y * Scale)

\* points offered to Insert: a diagonal ending on both midlines, a corner of
\* the world, and a point just beyond the world's east and south edges
TestPoints ==
    {P(1, 1), P(2, 2), P(3, 3), P(4, 4), P(5, 5), P(0, 10),
     Pt(10 * Scale + 1, -1)}

\* rectangles offered to QueryResults: the world, a single point, a window
\* whose edges pass through stored points, a window reaching past the world
TestQueries ==
    {TestBounds,
     Bounds(5 * Scale, 5 * Scale, 5 * Scale, 5 * Scale),
     Bounds(2 * Scale, 2 * Scale, 4 * Scale, 4 * Scale),
     Bounds(-Scale, 5 * Scale, 3 * Scale, 12 * Scale)}

NoBounds == Bounds(0, 0, 0, 0)

NoAll == [n |-> 0, points |-> <<>>]

InitTree ==
    /\ qt = NewTree(TestBounds, 4)
    /\ inserted = <<>>
    /\ lastInsert = [n |-> 0, node |-> Pt(0, 0), ok |-> FALSE]
    /\ lastAll = NoAll
    /\ results = <<>>
    /\ qbounds = NoBounds
    /\ crashed = "no"
    /\ driver = NoDriver
    /\ lastMove = NoMove
    /\ SimIdle

\* qt.Insert(node); a stack overflow or a panic ends the process
InsertPoint(node) ==
    /\ crashed = "no"
    /\ lastInsert.n < MaxInserts
    /\ LET r == Insert(qt, <<>>, node, 0)
       IN  /\ crashed' = r.how
           /\ qt' = IF r.how = "no" THEN r.t ELSE qt
           /\ inserted' = IF r.how = "no" /\ r.ok THEN Append(inserted, node) ELSE inserted
           /\ lastInsert' = [n |-> lastInsert.n + 1, node |-> node, ok |-> r.ok]
    /\ results' = <<>>
    /\ qbounds' = NoBounds
    /\ UNCHANGED <<lastAll, moveVars, simVars>>

\* results = qt.QueryResults(bounds)
QueryTree(bounds) ==
    /\ crashed = "no"
    /\ results' = QueryResults(qt, bounds)
    /\ qbounds' = bounds
    /\ UNCHANGED <<qt, inserted, lastInsert, lastAll, crashed>>
    /\ UNCHANGED <<moveVars, simVars>>

NextTree ==
    \/ \E node \in TestPoints : InsertPoint(node)
    \/ \E bounds \in TestQueries : QueryTree(bounds)

SpecTree == InitTree /\ [][NextTree]_vars

----------------------------------------------------------------------------
(* One driver of NewSimulation, moved any number of times *)

TreeIdle ==
    /\ qt = NewTree(TestBounds, 4)
    /\ inserted = <<>>
    /\ lastInsert = [n |-> 0, node |-> Pt(0, 0), ok |-> FALSE]
    /\ lastAll = NoAll
    /\ results = <<>>
    /\ qbounds = NoBounds
    /\ crashed = "no"

InitMove ==
    /\ driver \in NewDrivers(0)
    /\ lastMove = NoMove
    /\ TreeIdle
    /\ SimIdle

\* d.Move(deltaTime, r) for a driver that is not Offline, stage by stage as
\* in Move: the pairs of the edges of the world the candidate position was
\* near and the driver the call leaves
MoveCalls(d, deltaTime, R) ==
    LET turned == {turn(d, r1, r2) : r1 \in R, r2 \in R}
        sped == UNION {{accelerate(x, r1, r2) : r1 \in R, r2 \in R} : x \in turned}
        placed(x) == {place(avoidBoundary(x, deltaTime, r1, r2), deltaTime)
                         : r1 \in R, r2 \in R}
        done(x) == UNION {{changeStatus(y, r1, r2) : r1 \in R, r2 \in R}
                             : y \in placed(x)}
    IN  UNION {{nearEdges(x, deltaTime)} \X done(x) : x \in sped}

\* driver.Move(deltaTime, s.rand)
MoveDriver(deltaTime) ==
    /\ \E c \in IF driver.Status = Offline
                THEN {{}} \X Move(driver, deltaTime, Rand)
                ELSE MoveCalls(driver, deltaTime, Rand) :
          /\ driver' = c[2]
          /\ lastMove' = [called |-> TRUE, offline |-> driver.Status = Offline,
                          near |-> c[1]]
    /\ UNCHANGED <<qtVars, simVars>>

NextMove == \E deltaTime \in DeltaTimes : MoveDriver(deltaTime)

SpecMove == InitMove /\ [][NextMove]_vars

\* a Driver value with any fields, among them a speed of 0
AnyDrivers ==
    {Driver(1, lon, lat, st, sp, h) :
        lon \in {minLon, cityLon, maxLon}, lat \in {minLat, cityLat, maxLat},
        st \in {Available, Busy, Offline}, sp \in {0, minSpeed, maxSpeed},
        h \in {0, 1, 3, 6}}

InitMoveAny ==
    /\ driver \in AnyDrivers
    /\ lastMove = NoMove
    /\ TreeIdle
    /\ SimIdle

SpecMoveAny == InitMoveAny /\ [][NextMove]_vars


----------------------------------------------------------------------------
(* main.go: the Simulation, scaled down to numDrivers drivers and quadtree  *)
(* nodes of capacity qtCapacity                                             *)

numDrivers == 2
qtCapacity == 1
searchRadius == 1
updateInterval == 1
minClientRadius == 1

worldBounds == Bounds(minLon, minLat, maxLon, maxLat)

\* mutant: radius is taken for the side of the square, not its half-width
searchBounds_side(lon, lat, radius) ==
    Bounds(lon - radius \div 2, lat - radius \div 2,
           lon + radius \div 2, lat + radius \div 2)

\* QueryNearbyDrivers, lines 436-441
searchBounds(lon, lat, radius) ==
    Bounds(lon - radius, lat - radius, lon + radius, lat + radius)

\* the goroutines: the Run loop and the goroutines serving requests
Handlers == {"h1"}

Procs == {"run"} \cup Handlers

\* positions of a goroutine inside QueryNearbyDrivers
QueryPcs == {"q_rlock", "q_search", "q_statsLock", "q_stats", "q_runlock"}

\* positions of a goroutine that has its nearbyPoints and still holds the read lock
ReadPcs == {"q_statsLock", "q_stats", "q_runlock"}

NoLocals(pc) ==
    [pc |-> pc, ret |-> "", kind |-> "", lon |-> 0, lat |-> 0, radius |-> 0,
     reqRadius |-> 0, nearbyPoints |-> <<>>, from |-> -1, src |-> <<>>, epoch |-> 0,
     j |-> 0, k |-> 0, heading |-> 0,
     loaded |-> [TotalQueries |-> 0, TotalDriversFound |-> 0],
     deferred |-> "nil",
     buf |-> 0, found |-> <<>>, len |-> 0,
     resp |-> [err |-> "", Count |-> 0, Radius |-> 0, Drivers |-> <<>>], n |-> 0]

NoRun == [i |-> 0, qt |-> [id |-> -1, t |-> <<>>, src |-> <<>>], ticks |-> 0,
          queries |-> 0, u |-> 0, lat |-> 0, stop |-> FALSE]

\* the loop of NewSimulation and of RebuildQuadtree from driver i on:
\* qt.Insert of each driver's position, the result of Insert ignored
RECURSIVE InsertDrivers(_, _, _)
InsertDrivers(t, ds, i) ==
    IF i > numDrivers THEN Ret(t, TRUE, "no")
    ELSE LET r == Insert(t, <<>>, Pt(ds[i].Lon, ds[i].Lat), 0)
         IN  IF r.how # "no" THEN r ELSE InsertDrivers(r.t, ds, i + 1)

\* the draws NewSimulation makes for driver i, a few of all it can make
SimDraws(i) ==
    IF i = 1 THEN {<<30, 95, 0, 0, 0>>, <<30, 95, 0, 0, 75>>}
    ELSE {<<75, 95, 0, 0, 30>>, <<75, 95, 95, 0, 30>>}

SimDrivers ==
    {ds \in [1..numDrivers -> UNION {NewDrivers(i - 1) : i \in 1..numDrivers}] :
        \A i \in 1..numDrivers :
            \E r \in SimDraws(i) :
                ds[i] = NewDriver(i - 1, r[1], r[2], r[3], r[4], r[5])}

\* centers and radii the requests ask for
QueryCenters == {Pt(cityLon + 1, cityLat)}

\* the draws of the Run loop for the place of its user
UserDraws == {<<75, 30>>}

Radii == {-1, 0, searchRadius}

Alive == crashed = "no" /\ proc["run"].pc # "stopped"

\* NewSimulation, with ds the drivers it has drawn
InitFrom(ds) ==
    /\ drivers = ds
    /\ dmu = [i \in 1..numDrivers |-> ""]
    /\ LET r == InsertDrivers(NewTree(worldBounds, qtCapacity), drivers, 1)
       IN  /\ quadtree = [id |-> 0, t |-> r.t,
                           src |-> [i \in 1..numDrivers |-> Pt(ds[i].Lon, ds[i].Lat)]]
           /\ crashed = r.how
    /\ quadtreeMu = [w |-> "", r |-> {}, ww |-> {}]
    /\ stats = [TotalQueries |-> 0, TotalDriversFound |-> 0]
    /\ statsMu = ""
    /\ rebuildCount = 0
    /\ run = NoRun
    /\ proc = [p \in Procs |-> NoLocals(IF p = "run" THEN "select" ELSE "idle")]
    /\ hist = [i \in 1..numDrivers |-> {ds[i]}]
    /\ client = NoClient
    /\ resultsPool = NoBuffers
    /\ qt = NewTree(TestBounds, 4)
    /\ inserted = <<>>
    /\ lastInsert = [n |-> 0, node |-> Pt(0, 0), ok |-> FALSE]
    /\ lastAll = NoAll
    /\ results = <<>>
    /\ qbounds = NoBounds
    /\ driver = NoDriver
    /\ lastMove = NoMove

InitSim == \E ds \in SimDrivers : InitFrom(ds)

\* Run, case <-updateTicker.C
RunUpdateTick ==
    /\ Alive
    /\ proc["run"].pc = "select"
    /\ run.ticks < MaxTicks
    /\ proc' = [proc EXCEPT !["run"].pc = "move"]
    /\ run' = [run EXCEPT !.i = 1, !.ticks = @ + 1]
    /\ UNCHANGED <<drivers, dmu, quadtree, quadtreeMu, stats, statsMu, rebuildCount>>
    /\ UNCHANGED <<qtVars, moveVars, hist, client, resultsPool>>

\* mutant: the Run loop moves the driver's point in the published quadtree
\* as soon as the driver has moved
RunMove_reindex ==
    /\ Alive
    /\ proc["run"].pc = "move"
    /\ dmu[run.i] = ""
    /\ \E u \in Rand :
          \E d \in Move(drivers[run.i], updateInterval, {u}) :
              /\ drivers' = [drivers EXCEPT ![run.i] = d]
              /\ hist' = [hist EXCEPT ![run.i] = @ \cup {d}]
              /\ quadtree' = [quadtree EXCEPT !.src[run.i] = Pt(d.Lon, d.Lat)]
    /\ run' = [run EXCEPT !.i = @ + 1]
    /\ proc' = [proc EXCEPT !["run"].pc =
                    IF run.i = numDrivers THEN "select" ELSE "move"]
    /\ UNCHANGED <<dmu, quadtreeMu, stats, statsMu, rebuildCount>>
    /\ UNCHANGED <<qtVars, moveVars, client, resultsPool>>

\* Run, lines 498-500: driver.Move(deltaTime, s.rand), under the driver's mu;
\* within one call s.rand returns one and the same value u
RunMove ==
    /\ Alive
    /\ proc["run"].pc = "move"
    /\ dmu[run.i] = ""
    /\ \E u \in Rand :
          \E d \in Move(drivers[run.i], updateInterval, {u}) :
              /\ drivers' = [drivers EXCEPT ![run.i] = d]
              /\ hist' = [hist EXCEPT ![run.i] = @ \cup {d}]
    /\ run' = [run EXCEPT !.i = @ + 1]
    /\ proc' = [proc EXCEPT !["run"].pc =
                    IF run.i = numDrivers THEN "select" ELSE "move"]
    /\ UNCHANGED <<dmu, quadtree, quadtreeMu, stats, statsMu, rebuildCount>>
    /\ UNCHANGED <<qtVars, moveVars, client, resultsPool>>

\* Run, case <-rebuildTicker.C: RebuildQuadtree calls quadtreeMu.Lock, which
\* holds back readers that arrive from now on
RunRebuildTick ==
    /\ Alive
    /\ proc["run"].pc = "select"
    /\ rebuildCount < MaxRebuilds
    /\ proc' = [proc EXCEPT !["run"].pc = "rb_lock"]
    /\ quadtreeMu' = [quadtreeMu EXCEPT !.ww = @ \cup {"run"}]
    /\ UNCHANGED <<drivers, dmu, quadtree, stats, statsMu, rebuildCount, run>>
    /\ UNCHANGED <<qtVars, moveVars, hist, client, resultsPool>>

\* mutant: the rebuild fills the published quadtree instead of a new one
RebuildLock_reuse ==
    /\ Alive
    /\ proc["run"].pc = "rb_lock"
    /\ quadtreeMu.w = ""
    /\ quadtreeMu.r = {}
    /\ quadtreeMu' = [quadtreeMu EXCEPT !.w = "run", !.ww = @ \ {"run"}]
    /\ run' = [run EXCEPT !.i = 1, !.qt = quadtree]
    /\ proc' = [proc EXCEPT !["run"].pc = "rb_insert"]
    /\ UNCHANGED <<drivers, dmu, quadtree, stats, statsMu, rebuildCount>>
    /\ UNCHANGED <<qtVars, moveVars, hist, client, resultsPool>>

\* RebuildQuadtree, lines 367-372: the lock is acquired, qt := quadtree.New
RebuildLock ==
    /\ Alive
    /\ proc["run"].pc = "rb_lock"
    /\ quadtreeMu.w = ""
    /\ quadtreeMu.r = {}
    /\ quadtreeMu' = [quadtreeMu EXCEPT !.w = "run", !.ww = @ \ {"run"}]
    /\ run' = [run EXCEPT !.i = 1,
                          !.qt = [id |-> quadtree.id + 1,
                                  t |-> NewTree(worldBounds, qtCapacity),
                                  src |-> <<>>]]
    /\ proc' = [proc EXCEPT !["run"].pc = "rb_insert"]
    /\ UNCHANGED <<drivers, dmu, quadtree, stats, statsMu, rebuildCount>>
    /\ UNCHANGED <<qtVars, moveVars, hist, client, resultsPool>>

\* mutant: the loop over the drivers ends at the first driver that Insert
\* refuses
RebuildInsert_abort ==
    /\ Alive
    /\ proc["run"].pc = "rb_insert"
    /\ dmu[run.i] = ""
    /\ LET r == Insert(run.qt.t, <<>>, Pt(drivers[run.i].Lon, drivers[run.i].Lat), 0)
       IN  /\ crashed' = r.how
           /\ run' = [run EXCEPT !.i = IF r.ok THEN @ + 1 ELSE numDrivers + 1,
                                 !.qt.t = IF r.how = "no" THEN r.t ELSE @,
                                 !.qt.src = Append(@, Pt(drivers[run.i].Lon,
                                                        drivers[run.i].Lat))]
           /\ proc' = [proc EXCEPT !["run"].pc =
                           IF run.i = numDrivers \/ ~r.ok
                           THEN "rb_publish" ELSE "rb_insert"]
    /\ UNCHANGED <<drivers, dmu, quadtree, quadtreeMu, stats, statsMu, rebuildCount>>
    /\ UNCHANGED <<treeVars, moveVars, hist, client, resultsPool>>

\* mutant: the loop over the drivers ends after its first pass
RebuildInsert_once ==
    /\ Alive
    /\ proc["run"].pc = "rb_insert"
    /\ dmu[run.i] = ""
    /\ LET r == Insert(run.qt.t, <<>>, Pt(drivers[run.i].Lon, drivers[run.i].Lat), 0)
       IN  /\ crashed' = r.how
           /\ run' = [run EXCEPT !.i = @ + 1,
                                 !.qt.t = IF r.how = "no" THEN r.t ELSE @,
                                 !.qt.src = Append(@, Pt(drivers[run.i].Lon,
                                                        drivers[run.i].Lat))]
    /\ proc' = [proc EXCEPT !["run"].pc = "rb_publish"]
    /\ UNCHANGED <<drivers, dmu, quadtree, quadtreeMu, stats, statsMu, rebuildCount>>
    /\ UNCHANGED <<treeVars, moveVars, hist, client, resultsPool>>

\* mutant: the rebuild leaves the drivers that are Offline out of the
\* quadtree
RebuildInsert_skipOffline ==
    /\ Alive
    /\ proc["run"].pc = "rb_insert"
    /\ dmu[run.i] = ""
    /\ LET r == IF drivers[run.i].Status = Offline THEN Ret(run.qt.t, TRUE, "no")
                ELSE Insert(run.qt.t, <<>>,
                            Pt(drivers[run.i].Lon, drivers[run.i].Lat), 0)
       IN  /\ crashed' = r.how
           /\ run' = [run EXCEPT !.i = @ + 1,
                                 !.qt.t = IF r.how = "no" THEN r.t ELSE @,
                                 !.qt.src = Append(@, Pt(drivers[run.i].Lon,
                                                        drivers[run.i].Lat))]
    /\ proc' = [proc EXCEPT !["run"].pc =
                    IF run.i = numDrivers THEN "rb_publish" ELSE "rb_insert"]
    /\ UNCHANGED <<drivers, dmu, quadtree, quadtreeMu, stats, statsMu, rebuildCount>>
    /\ UNCHANGED <<treeVars, moveVars, hist, client, resultsPool>>

\* RebuildQuadtree, lines 375-378: GetPosition of one driver, under its mu,
\* and qt.Insert of that position
RebuildInsert ==
    /\ Alive
    /\ proc["run"].pc = "rb_insert"
    /\ dmu[run.i] = ""
    /\ LET r == Insert(run.qt.t, <<>>, Pt(drivers[run.i].Lon, drivers[run.i].Lat), 0)
       IN  /\ crashed' = r.how
           /\ run' = [run EXCEPT !.i = @ + 1,
                                 !.qt.t = IF r.how = "no" THEN r.t ELSE @,
                                 !.qt.src = Append(@, Pt(drivers[run.i].Lon,
                                                        drivers[run.i].Lat))]
    /\ proc' = [proc EXCEPT !["run"].pc =
                    IF run.i = numDrivers THEN "rb_publish" ELSE "rb_insert"]
    /\ UNCHANGED <<drivers, dmu, quadtree, quadtreeMu, stats, statsMu, rebuildCount>>
    /\ UNCHANGED <<treeVars, moveVars, hist, client, resultsPool>>

\* mutant: the rebuild counts itself but leaves s.quadtree as it was
RebuildPublish_noSwap ==
    /\ Alive
    /\ proc["run"].pc = "rb_publish"
    /\ rebuildCount' = rebuildCount + 1
    /\ quadtreeMu' = [quadtreeMu EXCEPT !.w = ""]
    /\ run' = [run EXCEPT !.i = 0, !.qt = NoRun.qt]
    /\ proc' = [proc EXCEPT !["run"].pc = "select"]
    /\ UNCHANGED <<drivers, dmu, quadtree, stats, statsMu>>
    /\ UNCHANGED <<qtVars, moveVars, hist, client, resultsPool>>

\* RebuildQuadtree, lines 380-383: s.quadtree = qt, the count, the unlock
RebuildPublish ==
    /\ Alive
    /\ proc["run"].pc = "rb_publish"
    /\ quadtree' = run.qt
    /\ rebuildCount' = rebuildCount + 1
    /\ quadtreeMu' = [quadtreeMu EXCEPT !.w = ""]
    /\ run' = [run EXCEPT !.i = 0, !.qt = NoRun.qt]
    /\ proc' = [proc EXCEPT !["run"].pc = "select"]
    /\ UNCHANGED <<drivers, dmu, stats, statsMu>>
    /\ UNCHANGED <<qtVars, moveVars, hist, client, resultsPool>>

\* Run, case <-queryTicker.C: a user at a random place asks for searchRadius
RunQueryTick ==
    /\ Alive
    /\ proc["run"].pc = "select"
    /\ run.queries < MaxRunQueries
    /\ \E r \in UserDraws :
          proc' = [proc EXCEPT !["run"] =
                      [@ EXCEPT !.pc = "q_rlock", !.ret = "select", !.kind = "run",
                                !.lon = minLon + Frac(r[1], maxLon - minLon),
                                !.lat = minLat + Frac(r[2], maxLat - minLat),
                                !.radius = searchRadius,
                                !.reqRadius = searchRadius,
                                !.epoch = rebuildCount]]
    /\ run' = [run EXCEPT !.queries = @ + 1]
    /\ UNCHANGED <<drivers, dmu, quadtree, quadtreeMu, stats, statsMu, rebuildCount>>
    /\ UNCHANGED <<qtVars, moveVars, hist, client, resultsPool>>

\* Run, case <-stop: Run returns and main with it
RunStop ==
    /\ Alive
    /\ proc["run"].pc = "select"
    /\ proc' = [proc EXCEPT !["run"].pc = "stopped"]
    /\ UNCHANGED <<drivers, dmu, quadtree, quadtreeMu, stats, statsMu, rebuildCount, run>>
    /\ UNCHANGED <<qtVars, moveVars, hist, client, resultsPool>>

\* GetNearbyDriversHandler, lines 773-827: lat, lon and radius as parsed
\* from the request, then QueryNearbyDrivers(lon, lat, radius)
HandlerStart(p) ==
    /\ Alive
    /\ proc[p].pc = "idle"
    /\ proc[p].n < MaxRequests
    /\ \E c \in QueryCenters, radius \in Radii :
          proc' = [proc EXCEPT ![p] =
                      [@ EXCEPT !.pc = "q_rlock", !.ret = "h_respond", !.kind = "http",
                                !.lon = c.X, !.lat = c.Y,
                                !.radius = radius, !.reqRadius = radius,
                                !.epoch = rebuildCount,
                                !.n = @ + 1]]
    /\ UNCHANGED <<drivers, dmu, quadtree, quadtreeMu, stats, statsMu, rebuildCount, run>>
    /\ UNCHANGED <<qtVars, moveVars, hist, client, resultsPool>>

\* SendDriversToClient, lines 646-684, for a client that has set lat, lon and
\* radius: a radius below the minimum is replaced by searchRadius, then
\* QueryNearbyDrivers(client.lon, client.lat, radius)
ClientSendStart(p) ==
    /\ Alive
    /\ proc[p].pc = "idle"
    /\ proc[p].n < MaxRequests
    /\ \E c \in QueryCenters, radius \in Radii :
          proc' = [proc EXCEPT ![p] =
                      [@ EXCEPT !.pc = "q_rlock", !.ret = "h_respond", !.kind = "ws",
                                !.lon = c.X, !.lat = c.Y,
                                !.radius = IF radius < minClientRadius
                                           THEN searchRadius ELSE radius,
                                !.reqRadius = radius,
                                !.epoch = rebuildCount,
                                !.n = @ + 1]]
    /\ UNCHANGED <<drivers, dmu, quadtree, quadtreeMu, stats, statsMu, rebuildCount, run>>
    /\ UNCHANGED <<qtVars, moveVars, hist, client, resultsPool>>

\* QueryNearbyDrivers, line 432: s.quadtreeMu.RLock()
QueryRLock(p) ==
    /\ Alive
    /\ proc[p].pc = "q_rlock"
    /\ quadtreeMu.w = ""
    /\ quadtreeMu.ww = {}
    /\ quadtreeMu' = [quadtreeMu EXCEPT !.r = @ \cup {p}]
    /\ proc' = [proc EXCEPT ![p].pc = "q_search"]
    /\ UNCHANGED <<drivers, dmu, quadtree, stats, statsMu, rebuildCount, run>>
    /\ UNCHANGED <<qtVars, moveVars, hist, client, resultsPool>>

\* QueryNearbyDrivers, lines 436-445: s.quadtree.QueryResults(searchBounds)
QuerySearch(p) ==
    /\ Alive
    /\ proc[p].pc = "q_search"
    /\ proc' = [proc EXCEPT ![p] =
                  [@ EXCEPT !.pc = "q_statsLock",
                            !.from = quadtree.id,
                            !.src = quadtree.src,
                            !.nearbyPoints =
                                QueryResults(quadtree.t,
                                    searchBounds(proc[p].lon, proc[p].lat, proc[p].radius))]]
    /\ UNCHANGED <<drivers, dmu, quadtree, quadtreeMu, stats, statsMu, rebuildCount, run>>
    /\ UNCHANGED <<qtVars, moveVars, hist, client, resultsPool>>

\* QueryNearbyDrivers, line 449: s.statsMu.Lock()
QueryStatsLock(p) ==
    /\ Alive
    /\ proc[p].pc = "q_statsLock"
    /\ statsMu = ""
    /\ statsMu' = p
    /\ proc' = [proc EXCEPT ![p].pc = "q_stats"]
    /\ UNCHANGED <<drivers, dmu, quadtree, quadtreeMu, stats, rebuildCount, run>>
    /\ UNCHANGED <<qtVars, moveVars, hist, client, resultsPool>>

\* QueryNearbyDrivers, lines 450-462: the counters, then s.statsMu.Unlock()
QueryStats(p) ==
    /\ Alive
    /\ proc[p].pc = "q_stats"
    /\ stats' = [stats EXCEPT !.TotalQueries = @ + 1,
                              !.TotalDriversFound = @ + Len(proc[p].nearbyPoints)]
    /\ statsMu' = ""
    /\ proc' = [proc EXCEPT ![p].pc = "q_runlock"]
    /\ UNCHANGED <<drivers, dmu, quadtree, quadtreeMu, rebuildCount, run>>
    /\ UNCHANGED <<qtVars, moveVars, hist, client, resultsPool>>

\* QueryNearbyDrivers, lines 433 and 464: the deferred RUnlock and the return
QueryRUnlock(p) ==
    /\ Alive
    /\ proc[p].pc = "q_runlock"
    /\ quadtreeMu' = [quadtreeMu EXCEPT !.r = @ \ {p}]
    /\ proc' = [proc EXCEPT ![p] =
                  IF p = "run" THEN NoLocals("select")
                  ELSE [@ EXCEPT !.pc = proc[p].ret]]
    /\ UNCHANGED <<drivers, dmu, quadtree, stats, statsMu, rebuildCount, run>>
    /\ UNCHANGED <<qtVars, moveVars, hist, client, resultsPool>>

\* the response of a handler: its count, its radius, and no error
HandlerRespond(p) ==
    /\ Alive
    /\ proc[p].pc = "h_respond"
    /\ proc' = [proc EXCEPT ![p] =
                  [@ EXCEPT !.pc = "h_done",
                            !.resp = [@ EXCEPT !.Count = Len(proc[p].nearbyPoints),
                                               !.Radius = proc[p].radius]]]
    /\ UNCHANGED <<drivers, dmu, quadtree, quadtreeMu, stats, statsMu, rebuildCount, run>>
    /\ UNCHANGED <<qtVars, moveVars, hist, client, resultsPool>>

\* the handler returns
HandlerReturn(p) ==
    /\ Alive
    /\ proc[p].pc = "h_done"
    /\ proc' = [proc EXCEPT ![p] = [NoLocals("idle") EXCEPT !.n = proc[p].n]]
    /\ UNCHANGED <<drivers, dmu, quadtree, quadtreeMu, stats, statsMu, rebuildCount, run>>
    /\ UNCHANGED <<qtVars, moveVars, hist, client, resultsPool>>

NextSim ==
    \/ RunUpdateTick
    \/ RunMove
    \/ RunRebuildTick
    \/ RebuildLock
    \/ RebuildInsert
    \/ RebuildPublish
    \/ RunQueryTick
    \/ RunStop
    \/ \E p \in Handlers : HandlerStart(p)
    \/ \E p \in Handlers : ClientSendStart(p)
    \/ \E p \in Procs : QueryRLock(p)
    \/ \E p \in Procs : QuerySearch(p)
    \/ \E p \in Procs : QueryStatsLock(p)
    \/ \E p \in Procs : QueryStats(p)
    \/ \E p \in Procs : QueryRUnlock(p)
    \/ \E p \in Handlers : HandlerRespond(p)
    \/ \E p \in Handlers : HandlerReturn(p)

Spec == InitSim /\ [][NextSim]_vars

----------------------------------------------------------------------------
(* The Simulation at the grain of the accesses to a driver: Move in the     *)
(* order of its assignments under d.mu, GetPosition as Lock and Unlock, and *)
(* the loops of the handlers that look for the driver of each point found   *)

positionTolerance == 1

\* lines 700-708: the heading in degrees, brought into [0, 360)
Degrees(heading) == (heading * 45) % 360

MovePcs == {"mv_speed", "mv_avoid", "mv_lon", "mv_end"}

\* Run, line 486: the interrupt signal arrives on the channel stop
Interrupt ==
    /\ Alive
    /\ ~run.stop
    /\ run' = [run EXCEPT !.stop = TRUE]
    /\ UNCHANGED <<drivers, dmu, quadtree, quadtreeMu, stats, statsMu, rebuildCount, proc>>
    /\ UNCHANGED <<qtVars, moveVars, hist, client, resultsPool>>

\* Run, lines 486-493: case <-stop, Run returns and main with it
RunReturn ==
    /\ Alive
    /\ proc["run"].pc = "select"
    /\ run.stop
    /\ proc' = [proc EXCEPT !["run"].pc = "stopped"]
    /\ UNCHANGED <<drivers, dmu, quadtree, quadtreeMu, stats, statsMu, rebuildCount, run>>
    /\ UNCHANGED <<qtVars, moveVars, hist, client, resultsPool>>

\* Move, lines 114-134: d.mu.Lock(), the return for an Offline driver, the
\* turn; u is the value s.rand returns during this call
MoveBegin ==
    /\ Alive
    /\ proc["run"].pc = "move"
    /\ dmu[run.i] = ""
    /\ IF drivers[run.i].Status = Offline
       THEN /\ run' = [run EXCEPT !.i = @ + 1]
            /\ proc' = [proc EXCEPT !["run"].pc =
                            IF run.i = numDrivers THEN "select" ELSE "move"]
            /\ UNCHANGED <<drivers, dmu>>
       ELSE /\ \E u \in Rand :
                  /\ run' = [run EXCEPT !.u = u]
                  /\ drivers' = [drivers EXCEPT ![run.i] = turn(@, u, u)]
            /\ dmu' = [dmu EXCEPT ![run.i] = "run"]
            /\ proc' = [proc EXCEPT !["run"].pc = "mv_speed"]
    /\ UNCHANGED <<quadtree, quadtreeMu, stats, statsMu, rebuildCount>>
    /\ UNCHANGED <<qtVars, moveVars, hist, client, resultsPool>>

\* Move, lines 137-148: the change of speed
MoveSpeed ==
    /\ Alive
    /\ proc["run"].pc = "mv_speed"
    /\ drivers' = [drivers EXCEPT ![run.i] = accelerate(@, run.u, run.u)]
    /\ proc' = [proc EXCEPT !["run"].pc = "mv_avoid"]
    /\ UNCHANGED <<dmu, quadtree, quadtreeMu, stats, statsMu, rebuildCount, run>>
    /\ UNCHANGED <<qtVars, moveVars, hist, client, resultsPool>>

\* Move, lines 151-175: the heading away from a boundary that is near
MoveAvoid ==
    /\ Alive
    /\ proc["run"].pc = "mv_avoid"
    /\ drivers' = [drivers EXCEPT ![run.i] =
                      avoidBoundary(@, updateInterval, run.u, run.u)]
    /\ proc' = [proc EXCEPT !["run"].pc = "mv_lon"]
    /\ UNCHANGED <<dmu, quadtree, quadtreeMu, stats, statsMu, rebuildCount, run>>
    /\ UNCHANGED <<qtVars, moveVars, hist, client, resultsPool>>

\* Move, lines 178-197: the new position is computed, d.Lon = newLon
MoveLon ==
    /\ Alive
    /\ proc["run"].pc = "mv_lon"
    /\ run' = [run EXCEPT !.lat = place(drivers[run.i], updateInterval).Lat]
    /\ drivers' = [drivers EXCEPT ![run.i].Lon =
                      place(drivers[run.i], updateInterval).Lon]
    /\ proc' = [proc EXCEPT !["run"].pc = "mv_end"]
    /\ UNCHANGED <<dmu, quadtree, quadtreeMu, stats, statsMu, rebuildCount>>
    /\ UNCHANGED <<qtVars, moveVars, hist, client, resultsPool>>

\* Move, lines 198-211: d.Lat = newLat, the change of status, and the
\* deferred d.mu.Unlock()
MoveEnd ==
    /\ Alive
    /\ proc["run"].pc = "mv_end"
    /\ LET d == changeStatus([drivers[run.i] EXCEPT !.Lat = run.lat], run.u, run.u)
       IN  /\ drivers' = [drivers EXCEPT ![run.i] = d]
           /\ hist' = [hist EXCEPT ![run.i] = @ \cup {d}]
    /\ dmu' = [dmu EXCEPT ![run.i] = ""]
    /\ run' = [run EXCEPT !.i = @ + 1]
    /\ proc' = [proc EXCEPT !["run"].pc =
                    IF run.i = numDrivers THEN "select" ELSE "move"]
    /\ UNCHANGED <<quadtree, quadtreeMu, stats, statsMu, rebuildCount>>
    /\ UNCHANGED <<qtVars, moveVars, client, resultsPool>>

\* RebuildQuadtree, line 376: d.mu.Lock() of driver.GetPosition()
RebuildGetPosition ==
    /\ Alive
    /\ proc["run"].pc = "rb_insert"
    /\ dmu[run.i] = ""
    /\ dmu' = [dmu EXCEPT ![run.i] = "run"]
    /\ proc' = [proc EXCEPT !["run"].pc = "rb_pos"]
    /\ UNCHANGED <<drivers, quadtree, quadtreeMu, stats, statsMu, rebuildCount, run>>
    /\ UNCHANGED <<qtVars, moveVars, hist, client, resultsPool>>

\* mutant: the loop of RebuildQuadtree moves each driver once it has
\* inserted the driver's position
RebuildInsertPoint_moves ==
    /\ Alive
    /\ proc["run"].pc = "rb_pos"
    /\ LET r == Insert(run.qt.t, <<>>, Pt(drivers[run.i].Lon, drivers[run.i].Lat), 0)
       IN  /\ crashed' = r.how
           /\ run' = [run EXCEPT !.i = @ + 1,
                                 !.qt.t = IF r.how = "no" THEN r.t ELSE @,
                                 !.qt.src = Append(@, Pt(drivers[run.i].Lon,
                                                        drivers[run.i].Lat))]
    /\ \E u \in Rand :
          \E d \in Move(drivers[run.i], updateInterval, {u}) :
              /\ drivers' = [drivers EXCEPT ![run.i] = d]
              /\ hist' = [hist EXCEPT ![run.i] = @ \cup {d}]
    /\ dmu' = [dmu EXCEPT ![run.i] = ""]
    /\ proc' = [proc EXCEPT !["run"].pc =
                    IF run.i = numDrivers THEN "rb_publish" ELSE "rb_insert"]
    /\ UNCHANGED <<quadtree, quadtreeMu, stats, statsMu, rebuildCount>>
    /\ UNCHANGED <<treeVars, moveVars, client, resultsPool>>

\* RebuildQuadtree, lines 376-377: GetPosition returns the position and
\* unlocks d.mu, then qt.Insert of that position
RebuildInsertPoint ==
    /\ Alive
    /\ proc["run"].pc = "rb_pos"
    /\ LET r == Insert(run.qt.t, <<>>, Pt(drivers[run.i].Lon, drivers[run.i].Lat), 0)
       IN  /\ crashed' = r.how
           /\ run' = [run EXCEPT !.i = @ + 1,
                                 !.qt.t = IF r.how = "no" THEN r.t ELSE @,
                                 !.qt.src = Append(@, Pt(drivers[run.i].Lon,
                                                        drivers[run.i].Lat))]
    /\ dmu' = [dmu EXCEPT ![run.i] = ""]
    /\ proc' = [proc EXCEPT !["run"].pc =
                    IF run.i = numDrivers THEN "rb_publish" ELSE "rb_insert"]
    /\ UNCHANGED <<drivers, quadtree, quadtreeMu, stats, statsMu, rebuildCount>>
    /\ UNCHANGED <<treeVars, moveVars, hist, client, resultsPool>>

\* the position of goroutine p after it is done with point j of its
\* nearbyPoints: the next point, or the end of the loop over the points
NextPoint(p) ==
    [proc[p] EXCEPT !.j = @ + 1, !.k = 1,
                    !.pc = IF proc[p].j >= Len(proc[p].nearbyPoints)
                           THEN "h_send" ELSE "c_lock"]

\* lines 687 and 830-841: the response before the loop over the points
RespondStart(p) ==
    /\ Alive
    /\ proc[p].pc = "h_respond"
    /\ proc' = [proc EXCEPT ![p] =
                  [@ EXCEPT !.resp = [@ EXCEPT !.Count = Len(proc[p].nearbyPoints),
                                               !.Radius = proc[p].radius],
                            !.j = 1, !.k = 1,
                            !.pc = IF Len(proc[p].nearbyPoints) = 0
                                   THEN "h_send" ELSE "c_lock"]]
    /\ UNCHANGED <<drivers, dmu, quadtree, quadtreeMu, stats, statsMu, rebuildCount, run>>
    /\ UNCHANGED <<qtVars, moveVars, hist, client, resultsPool>>

\* mutant: GetPosition reads the driver without taking d.mu
CorrLock_noLock(p) ==
    /\ Alive
    /\ proc[p].pc = "c_lock"
    /\ proc' = [proc EXCEPT ![p].pc = "c_pos"]
    /\ UNCHANGED <<drivers, dmu, quadtree, quadtreeMu, stats, statsMu, rebuildCount, run>>
    /\ UNCHANGED <<qtVars, moveVars, hist, client, resultsPool>>

\* lines 693 and 847: d.mu.Lock() of driver.GetPosition(), for driver k
CorrLock(p) ==
    /\ Alive
    /\ proc[p].pc = "c_lock"
    /\ dmu[proc[p].k] = ""
    /\ dmu' = [dmu EXCEPT ![proc[p].k] = p]
    /\ proc' = [proc EXCEPT ![p].pc = "c_pos"]
    /\ UNCHANGED <<drivers, quadtree, quadtreeMu, stats, statsMu, rebuildCount, run>>
    /\ UNCHANGED <<qtVars, moveVars, hist, client, resultsPool>>

\* lines 693-694 and 847-848: GetPosition returns and unlocks d.mu; the
\* driver is taken for the driver of point j if it stands within the
\* tolerance of the point, otherwise the next driver is tried
CorrPosition(p) ==
    /\ Alive
    /\ proc[p].pc = "c_pos"
    /\ dmu' = [dmu EXCEPT ![proc[p].k] = ""]
    /\ LET point == proc[p].nearbyPoints[proc[p].j]
           dLon == drivers[proc[p].k].Lon
           dLat == drivers[proc[p].k].Lat
           dx == IF dLon >= point.X THEN dLon - point.X ELSE point.X - dLon
           dy == IF dLat >= point.Y THEN dLat - point.Y ELSE point.Y - dLat
       IN  proc' = [proc EXCEPT ![p] =
                      IF dx < positionTolerance /\ dy < positionTolerance
                      THEN [@ EXCEPT !.pc = "c_heading"]
                      ELSE IF proc[p].k < numDrivers
                      THEN [@ EXCEPT !.k = @ + 1, !.pc = "c_lock"]
                      ELSE NextPoint(p)]
    /\ UNCHANGED <<drivers, quadtree, quadtreeMu, stats, statsMu, rebuildCount, run>>
    /\ UNCHANGED <<qtVars, moveVars, hist, client, resultsPool>>

\* lines 700 and 855: driver.Heading is read, d.mu not held
CorrHeading(p) ==
    /\ Alive
    /\ proc[p].pc = "c_heading"
    /\ proc' = [proc EXCEPT ![p] =
                  [@ EXCEPT !.heading = Degrees(drivers[proc[p].k].Heading),
                            !.pc = "c_entry"]]
    /\ UNCHANGED <<drivers, dmu, quadtree, quadtreeMu, stats, statsMu, rebuildCount, run>>
    /\ UNCHANGED <<qtVars, moveVars, hist, client, resultsPool>>

\* lines 711-720 and 868-877: the entry of the response, with driver.ID,
\* driver.Status and driver.Speed read, d.mu not held; then break
CorrEntry(p) ==
    /\ Alive
    /\ proc[p].pc = "c_entry"
    /\ LET point == proc[p].nearbyPoints[proc[p].j]
           d == drivers[proc[p].k]
           entry == [ID |-> d.ID, Lon |-> point.X, Lat |-> point.Y,
                     Status |-> d.Status, Heading |-> proc[p].heading,
                     Speed |-> d.Speed]
       IN  proc' = [proc EXCEPT ![p] =
                      [NextPoint(p) EXCEPT !.resp.Drivers = Append(@, entry)]]
    /\ UNCHANGED <<drivers, dmu, quadtree, quadtreeMu, stats, statsMu, rebuildCount, run>>
    /\ UNCHANGED <<qtVars, moveVars, hist, client, resultsPool>>

\* lines 726-758 and 882-885: the response is sent; the count of a
\* drivers_update message is the number of its entries
RespondSend(p) ==
    /\ Alive
    /\ proc[p].pc = "h_send"
    /\ proc' = [proc EXCEPT ![p] =
                  [@ EXCEPT !.resp.Count = IF proc[p].kind = "ws"
                                           THEN Len(proc[p].resp.Drivers) ELSE @,
                            !.pc = "h_done"]]
    /\ UNCHANGED <<drivers, dmu, quadtree, quadtreeMu, stats, statsMu, rebuildCount, run>>
    /\ UNCHANGED <<qtVars, moveVars, hist, client, resultsPool>>

NextSteps ==
    \/ RunUpdateTick
    \/ MoveBegin
    \/ MoveSpeed
    \/ MoveAvoid
    \/ MoveLon
    \/ MoveEnd
    \/ RunRebuildTick
    \/ RebuildLock
    \/ RebuildGetPosition
    \/ RebuildInsertPoint
    \/ RebuildPublish
    \/ Interrupt
    \/ RunReturn
    \/ \E p \in Handlers : HandlerStart(p)
    \/ \E p \in Handlers : ClientSendStart(p)
    \/ \E p \in Handlers : QueryRLock(p)
    \/ \E p \in Handlers : QuerySearch(p)
    \/ \E p \in Handlers : QueryStatsLock(p)
    \/ \E p \in Handlers : QueryStats(p)
    \/ \E p \in Handlers : QueryRUnlock(p)
    \/ \E p \in Handlers : RespondStart(p)
    \/ \E p \in Handlers : CorrLock(p)
    \/ \E p \in Handlers : CorrPosition(p)
    \/ \E p \in Handlers : CorrHeading(p)
    \/ \E p \in Handlers : CorrEntry(p)
    \/ \E p \in Handlers : RespondSend(p)
    \/ \E p \in Handlers : HandlerReturn(p)

SpecSteps == InitSim /\ [][NextSteps]_vars

\* the steps of the Run goroutine inside a case of its select
RunProgress ==
    \/ MoveBegin
    \/ MoveSpeed
    \/ MoveAvoid
    \/ MoveLon
    \/ MoveEnd
    \/ RebuildLock
    \/ RebuildGetPosition
    \/ RebuildInsertPoint
    \/ RebuildPublish

\* the steps of a goroutine that serves a request
HandlerProgress(p) ==
    \/ QueryRLock(p)
    \/ QuerySearch(p)
    \/ QueryStatsLock(p)
    \/ QueryStats(p)
    \/ QueryRUnlock(p)
    \/ RespondStart(p)
    \/ CorrLock(p)
    \/ CorrPosition(p)
    \/ CorrHeading(p)
    \/ CorrEntry(p)
    \/ RespondSend(p)
    \/ HandlerReturn(p)

\* every goroutine that can take a step takes one, and the select of Run
\* does not pass over a stop that is ready for ever
FairSteps ==
    /\ SpecSteps
    /\ WF_vars(RunProgress)
    /\ SF_vars(RunReturn)
    /\ \A p \in Handlers : WF_vars(HandlerProgress(p))

----------------------------------------------------------------------------
(* Drivers that head north-west, so that a Move changes both Lon and Lat    *)

\* the draws NewSimulation makes for driver i: a heading of 7 * Pi / 4
AccessDraws(i) ==
    IF i = 1 THEN {<<30, 95, 0, 0, 95>>, <<30, 95, 0, 75, 95>>}
    ELSE {<<75, 95, 0, 0, 95>>}

AccessDrivers ==
    {ds \in [1..numDrivers -> UNION {NewDrivers(i - 1) : i \in 1..numDrivers}] :
        \A i \in 1..numDrivers :
            \E r \in AccessDraws(i) :
                ds[i] = NewDriver(i - 1, r[1], r[2], r[3], r[4], r[5])}

InitAccess == \E ds \in AccessDrivers : InitFrom(ds)

SpecAccess == InitAccess /\ [][NextSteps]_vars

----------------------------------------------------------------------------
(* The update ticks of the Run loop alone, each Move with draws of its own   *)

MaxFleetTicks == 2  \* update ticks of the Run loop

\* the values s.rand returns during a Move
FleetRand == {0, 95}

\* Run, case <-updateTicker.C
FleetTick ==
    /\ Alive
    /\ proc["run"].pc = "select"
    /\ run.ticks < MaxFleetTicks
    /\ proc' = [proc EXCEPT !["run"].pc = "move"]
    /\ run' = [run EXCEPT !.i = 1, !.ticks = @ + 1]
    /\ UNCHANGED <<drivers, dmu, quadtree, quadtreeMu, stats, statsMu, rebuildCount>>
    /\ UNCHANGED <<qtVars, moveVars, hist, client, resultsPool>>

\* mutant: the Run loop puts a driver it finds Offline back to Available
FleetMove_revive ==
    /\ Alive
    /\ proc["run"].pc = "move"
    /\ dmu[run.i] = ""
    /\ \E d \in Move([drivers[run.i] EXCEPT !.Status = Available],
                     updateInterval, FleetRand) :
          /\ drivers' = [drivers EXCEPT ![run.i] = d]
          /\ hist' = [hist EXCEPT ![run.i] = @ \cup {d}]
    /\ run' = [run EXCEPT !.i = @ + 1]
    /\ proc' = [proc EXCEPT !["run"].pc =
                    IF run.i = numDrivers THEN "select" ELSE "move"]
    /\ UNCHANGED <<dmu, quadtree, quadtreeMu, stats, statsMu, rebuildCount>>
    /\ UNCHANGED <<qtVars, moveVars, client, resultsPool>>

\* Run, lines 498-500: driver.Move(deltaTime, s.rand), under the driver's mu
FleetMove ==
    /\ Alive
    /\ proc["run"].pc = "move"
    /\ dmu[run.i] = ""
    /\ \E d \in Move(drivers[run.i], updateInterval, FleetRand) :
          /\ drivers' = [drivers EXCEPT ![run.i] = d]
          /\ hist' = [hist EXCEPT ![run.i] = @ \cup {d}]
    /\ run' = [run EXCEPT !.i = @ + 1]
    /\ proc' = [proc EXCEPT !["run"].pc =
                    IF run.i = numDrivers THEN "select" ELSE "move"]
    /\ UNCHANGED <<dmu, quadtree, quadtreeMu, stats, statsMu, rebuildCount>>
    /\ UNCHANGED <<qtVars, moveVars, client, resultsPool>>

NextFleet ==
    \/ FleetTick
    \/ FleetMove

SpecFleet == InitSim /\ [][NextFleet]_vars

----------------------------------------------------------------------------
(* QueryNearbyDrivers at the grain of its accesses to s.stats: each counter  *)
(* is loaded and stored, in the Run loop and in a goroutine serving a        *)
(* request at once                                                           *)

\* positions of a goroutine inside QueryNearbyDrivers before its counts are
\* stored
UncountedPcs == {"q_rlock", "q_search", "q_statsLock", "q_stats", "q_store"}

\* mutant: the counters are updated without statsMu
CountLock_noLock(p) ==
    /\ Alive
    /\ proc[p].pc = "q_statsLock"
    /\ proc' = [proc EXCEPT ![p].pc = "q_stats"]
    /\ UNCHANGED <<drivers, dmu, quadtree, quadtreeMu, stats, statsMu, rebuildCount, run>>
    /\ UNCHANGED <<qtVars, moveVars, hist, client, resultsPool>>

\* QueryNearbyDrivers, line 449: s.statsMu.Lock()
CountLock(p) ==
    /\ Alive
    /\ proc[p].pc = "q_statsLock"
    /\ statsMu = ""
    /\ statsMu' = p
    /\ proc' = [proc EXCEPT ![p].pc = "q_stats"]
    /\ UNCHANGED <<drivers, dmu, quadtree, quadtreeMu, stats, rebuildCount, run>>
    /\ UNCHANGED <<qtVars, moveVars, hist, client, resultsPool>>

\* QueryNearbyDrivers, lines 450-451: the loads of s.stats.TotalQueries++
\* and of s.stats.TotalDriversFound += len(nearbyPoints)
CountLoad(p) ==
    /\ Alive
    /\ proc[p].pc = "q_stats"
    /\ proc' = [proc EXCEPT ![p] = [@ EXCEPT !.loaded = stats, !.pc = "q_store"]]
    /\ UNCHANGED <<drivers, dmu, quadtree, quadtreeMu, stats, statsMu, rebuildCount, run>>
    /\ UNCHANGED <<qtVars, moveVars, hist, client, resultsPool>>

\* QueryNearbyDrivers, lines 450-462: the stores of the two counters, then
\* s.statsMu.Unlock()
CountStore(p) ==
    /\ Alive
    /\ proc[p].pc = "q_store"
    /\ stats' = [TotalQueries |-> proc[p].loaded.TotalQueries + 1,
                 TotalDriversFound |-> proc[p].loaded.TotalDriversFound
                                           + Len(proc[p].nearbyPoints)]
    /\ statsMu' = IF statsMu = p THEN "" ELSE statsMu
    /\ proc' = [proc EXCEPT ![p].pc = "q_runlock"]
    /\ UNCHANGED <<drivers, dmu, quadtree, quadtreeMu, rebuildCount, run>>
    /\ UNCHANGED <<qtVars, moveVars, hist, client, resultsPool>>

NextCount ==
    \/ RunQueryTick
    \/ \E p \in Handlers : HandlerStart(p)
    \/ \E p \in Handlers : ClientSendStart(p)
    \/ \E p \in Procs : QueryRLock(p)
    \/ \E p \in Procs : QuerySearch(p)
    \/ \E p \in Procs : CountLock(p)
    \/ \E p \in Procs : CountLoad(p)
    \/ \E p \in Procs : CountStore(p)
    \/ \E p \in Procs : QueryRUnlock(p)
    \/ \E p \in Handlers : HandlerRespond(p)
    \/ \E p \in Handlers : HandlerReturn(p)

SpecCount == InitSim /\ [][NextCount]_vars

----------------------------------------------------------------------------
(* SendDriversToClient for one connected client, called by the Run loop      *)
(* (BroadcastDrivers) and by the client's HandleWebSocket goroutine, at the  *)
(* grain of its accesses to client.mu                                        *)

MaxBroadcasts == 1  \* broadcast ticks of the Run loop

\* where goroutine p is when it is not inside a call
Rest(p) == IF p = "run" THEN "select" ELSE "idle"

\* lines 689-723: the entries for the points from index j on, each from the
\* first driver that stands within the tolerance of the point
RECURSIVE Entries(_, _)
Entries(points, j) ==
    IF j > Len(points) THEN <<>>
    ELSE LET point == points[j]
             near == {k \in 1..numDrivers :
                         LET dLon == drivers[k].Lon
                             dLat == drivers[k].Lat
                             dx == IF dLon >= point.X THEN dLon - point.X
                                   ELSE point.X - dLon
                             dy == IF dLat >= point.Y THEN dLat - point.Y
                                   ELSE point.Y - dLat
                         IN  dx < positionTolerance /\ dy < positionTolerance}
         IN  IF near = {} THEN Entries(points, j + 1)
             ELSE LET k == CHOOSE m \in near : \A o \in near : m <= o
                      d == drivers[k]
                  IN  <<[ID |-> d.ID, Lon |-> point.X, Lat |-> point.Y,
                         Status |-> d.Status, Heading |-> Degrees(d.Heading),
                         Speed |-> d.Speed]>> \o Entries(points, j + 1)

\* SendDriversToClient, lines 646-743: the radius, QueryNearbyDrivers with
\* its counters, and the message with its entries and their count
SendBegin(p) ==
    /\ Alive
    /\ proc[p].pc = Rest(p)
    /\ proc[p].n < (IF p = "run" THEN MaxBroadcasts ELSE MaxRequests)
    /\ quadtreeMu.w = ""
    /\ quadtreeMu.ww = {}
    /\ statsMu = ""
    /\ \E c \in QueryCenters, reqRadius \in Radii :
          LET radius == IF reqRadius < minClientRadius THEN searchRadius
                        ELSE reqRadius
              nearbyPoints == QueryResults(quadtree.t, searchBounds(c.X, c.Y, radius))
              driverResponses == Entries(nearbyPoints, 1)
          IN  /\ proc' = [proc EXCEPT ![p] =
                            [@ EXCEPT !.pc = "s_check", !.kind = "ws",
                                      !.lon = c.X, !.lat = c.Y,
                                      !.radius = radius, !.reqRadius = reqRadius,
                                      !.nearbyPoints = nearbyPoints,
                                      !.from = quadtree.id,
                                      !.src = quadtree.src,
                                      !.resp = [err |-> "",
                                                Count |-> Len(driverResponses),
                                                Radius |-> radius,
                                                Drivers |-> driverResponses],
                                      !.n = @ + 1]]
              /\ stats' = [stats EXCEPT !.TotalQueries = @ + 1,
                                        !.TotalDriversFound = @ + Len(nearbyPoints)]
    /\ UNCHANGED <<drivers, dmu, quadtree, quadtreeMu, statsMu, rebuildCount, run>>
    /\ UNCHANGED <<qtVars, moveVars, hist, client, resultsPool>>

\* line 746: if client.mu == nil
SendCheck(p) ==
    /\ Alive
    /\ proc[p].pc = "s_check"
    /\ proc' = [proc EXCEPT ![p].pc = IF client.mu = "nil" THEN "s_new" ELSE "s_lock"]
    /\ UNCHANGED <<drivers, dmu, quadtree, quadtreeMu, stats, statsMu, rebuildCount, run>>
    /\ UNCHANGED <<qtVars, moveVars, hist, client, resultsPool>>

\* line 747: client.mu = &sync.Mutex{}, the mutex named after the goroutine
\* that made it
SendNew(p) ==
    /\ Alive
    /\ proc[p].pc = "s_new"
    /\ client' = [client EXCEPT !.mu = p]
    /\ proc' = [proc EXCEPT ![p].pc = "s_lock"]
    /\ UNCHANGED <<drivers, dmu, quadtree, quadtreeMu, stats, statsMu, rebuildCount, run>>
    /\ UNCHANGED <<qtVars, moveVars, hist, resultsPool>>

\* line 751: client.mu.Lock(), on the mutex client.mu points to now
SendLock(p) ==
    /\ Alive
    /\ proc[p].pc = "s_lock"
    /\ \A h \in Procs : <<client.mu, h>> \notin client.held
    /\ client' = [client EXCEPT !.held = @ \cup {<<client.mu, p>>}]
    /\ proc' = [proc EXCEPT ![p].pc = "s_defer"]
    /\ UNCHANGED <<drivers, dmu, quadtree, quadtreeMu, stats, statsMu, rebuildCount, run>>
    /\ UNCHANGED <<qtVars, moveVars, hist, resultsPool>>

\* line 752: defer client.mu.Unlock(), its receiver client.mu evaluated now;
\* then conn.WriteMessage is entered
SendDefer(p) ==
    /\ Alive
    /\ proc[p].pc = "s_defer"
    /\ proc' = [proc EXCEPT ![p] = [@ EXCEPT !.deferred = client.mu, !.pc = "s_write"]]
    /\ UNCHANGED <<drivers, dmu, quadtree, quadtreeMu, stats, statsMu, rebuildCount, run>>
    /\ UNCHANGED <<qtVars, moveVars, hist, client, resultsPool>>

\* lines 755-758: conn.WriteMessage returns
SendWrite(p) ==
    /\ Alive
    /\ proc[p].pc = "s_write"
    /\ proc' = [proc EXCEPT ![p].pc = "s_unlock"]
    /\ UNCHANGED <<drivers, dmu, quadtree, quadtreeMu, stats, statsMu, rebuildCount, run>>
    /\ UNCHANGED <<qtVars, moveVars, hist, client, resultsPool>>

\* line 759: the deferred Unlock, and the return; Unlock of a mutex that is
\* not locked is a fatal error
SendUnlock(p) ==
    /\ Alive
    /\ proc[p].pc = "s_unlock"
    /\ LET held == {e \in client.held : e[1] = proc[p].deferred}
       IN  /\ client' = [client EXCEPT !.held = @ \ held]
           /\ crashed' = IF held = {} THEN "unlock" ELSE crashed
    /\ proc' = [proc EXCEPT ![p] = [NoLocals(Rest(p)) EXCEPT !.n = proc[p].n]]
    /\ UNCHANGED <<drivers, dmu, quadtree, quadtreeMu, stats, statsMu, rebuildCount, run>>
    /\ UNCHANGED <<treeVars, moveVars, hist, resultsPool>>

NextClient ==
    \/ \E p \in Procs : SendBegin(p)
    \/ \E p \in Procs : SendCheck(p)
    \/ \E p \in Procs : SendNew(p)
    \/ \E p \in Procs : SendLock(p)
    \/ \E p \in Procs : SendDefer(p)
    \/ \E p \in Procs : SendWrite(p)
    \/ \E p \in Procs : SendUnlock(p)

SpecClient == InitSim /\ [][NextClient]_vars

----------------------------------------------------------------------------
(* QueryResults at the grain of its accesses to resultsPool and to the       *)
(* buffer it takes from it, called by the Run loop and by a goroutine        *)
(* serving a request at once                                                 *)

MaxBuffers == 2     \* buffers the New of resultsPool makes

\* positions of a goroutine inside QueryResults, between Get and Put
PoolPcs == {"p_append", "p_put"}

\* the buffers a Get can return: one of the pool, or a new one from New,
\* which a sync.Pool may call whether it holds a buffer or not
Gettable ==
    resultsPool.free \cup (IF Len(resultsPool.data) < MaxBuffers
                           THEN {Len(resultsPool.data) + 1} ELSE {})

\* mutant: Get hands out a buffer of the pool and leaves it there
PoolGet_shared(p) ==
    /\ Alive
    /\ proc[p].pc = "q_search"
    /\ \E b \in Gettable :
          /\ resultsPool' =
                [resultsPool EXCEPT !.data = IF b > Len(@) THEN Append(@, <<>>) ELSE @,
                                    !.free = @ \cup {b}]
          /\ proc' = [proc EXCEPT ![p] =
                        [@ EXCEPT !.pc = "p_append", !.buf = b, !.len = 0,
                                  !.from = quadtree.id,
                                  !.src = quadtree.src,
                                  !.found =
                                      QueryResults(quadtree.t,
                                          searchBounds(proc[p].lon, proc[p].lat,
                                                       proc[p].radius))]]
    /\ UNCHANGED <<drivers, dmu, quadtree, quadtreeMu, stats, statsMu, rebuildCount, run>>
    /\ UNCHANGED <<qtVars, moveVars, hist, client>>

\* QueryResults, lines 154-160: resultsPool.Get(), results[:0], and the
\* points qt.Query is going to find in the published quadtree
PoolGet(p) ==
    /\ Alive
    /\ proc[p].pc = "q_search"
    /\ \E b \in Gettable :
          /\ resultsPool' =
                [resultsPool EXCEPT !.data = IF b > Len(@) THEN Append(@, <<>>) ELSE @,
                                    !.free = @ \ {b}]
          /\ proc' = [proc EXCEPT ![p] =
                        [@ EXCEPT !.pc = "p_append", !.buf = b, !.len = 0,
                                  !.from = quadtree.id,
                                  !.src = quadtree.src,
                                  !.found =
                                      QueryResults(quadtree.t,
                                          searchBounds(proc[p].lon, proc[p].lat,
                                                       proc[p].radius))]]
    /\ UNCHANGED <<drivers, dmu, quadtree, quadtreeMu, stats, statsMu, rebuildCount, run>>
    /\ UNCHANGED <<qtVars, moveVars, hist, client>>

\* Query, line 133: *results = append(*results, node), which writes the
\* element after the last one of the buffer
PoolAppend(p) ==
    /\ Alive
    /\ proc[p].pc = "p_append"
    /\ proc[p].len < Len(proc[p].found)
    /\ LET b == proc[p].buf
           i == proc[p].len + 1
           node == proc[p].found[i]
       IN  resultsPool' =
              [resultsPool EXCEPT !.data[b] =
                                      IF i <= Len(@) THEN [@ EXCEPT ![i] = node]
                                      ELSE Append(@, node)]
    /\ proc' = [proc EXCEPT ![p].len = @ + 1]
    /\ UNCHANGED <<drivers, dmu, quadtree, quadtreeMu, stats, statsMu, rebuildCount, run>>
    /\ UNCHANGED <<qtVars, moveVars, hist, client>>

\* QueryResults, lines 163-164: qt.Query has returned; returnSlice is made
\* and the len(results) first elements of the buffer are copied into it
PoolCopy(p) ==
    /\ Alive
    /\ proc[p].pc = "p_append"
    /\ proc[p].len = Len(proc[p].found)
    /\ proc' = [proc EXCEPT ![p] =
                  [@ EXCEPT !.pc = "p_put",
                            !.nearbyPoints =
                                [i \in 1..proc[p].len |->
                                    resultsPool.data[proc[p].buf][i]]]]
    /\ UNCHANGED <<drivers, dmu, quadtree, quadtreeMu, stats, statsMu, rebuildCount, run>>
    /\ UNCHANGED <<qtVars, moveVars, hist, client, resultsPool>>

\* QueryResults, lines 167-170: resultsPool.Put(resultsPtr) and the return
PoolPut(p) ==
    /\ Alive
    /\ proc[p].pc = "p_put"
    /\ resultsPool' = [resultsPool EXCEPT !.free = @ \cup {proc[p].buf}]
    /\ proc' = [proc EXCEPT ![p] =
                  [@ EXCEPT !.pc = "q_statsLock", !.buf = 0, !.len = 0,
                            !.found = <<>>]]
    /\ UNCHANGED <<drivers, dmu, quadtree, quadtreeMu, stats, statsMu, rebuildCount, run>>
    /\ UNCHANGED <<qtVars, moveVars, hist, client>>

NextPool ==
    \/ RunQueryTick
    \/ \E p \in Handlers : HandlerStart(p)
    \/ \E p \in Handlers : ClientSendStart(p)
    \/ \E p \in Procs : QueryRLock(p)
    \/ \E p \in Procs : PoolGet(p)
    \/ \E p \in Procs : PoolAppend(p)
    \/ \E p \in Procs : PoolCopy(p)
    \/ \E p \in Procs : PoolPut(p)
    \/ \E p \in Procs : QueryStatsLock(p)
    \/ \E p \in Procs : QueryStats(p)
    \/ \E p \in Procs : QueryRUnlock(p)
    \/ \E p \in Handlers : HandlerRespond(p)
    \/ \E p \in Handlers : HandlerReturn(p)

SpecPool == InitSim /\ [][NextPool]_vars

----------------------------------------------------------------------------
(* Points outside the bounds: the Simulation started with its first driver  *)
(* east of the world, and InsertAll called on the quadtree under test with  *)
(* lists that hold a point outside its bounds                               *)

StrayDrivers == {[ds EXCEPT ![1].Lon = maxLon + 1] : ds \in SimDrivers}

TestLists ==
    {<<P(1, 1), Pt(10 * Scale + 1, -1), P(2, 2)>>,
     <<Pt(10 * Scale + 1, -1), P(0, 10)>>}

\* the points of the list, from point i on, for which Insert returns true
RECURSIVE Accepted(_, _, _)
Accepted(t, points, i) ==
    IF i > Len(points) THEN <<>>
    ELSE LET r == Insert(t, <<>>, points[i], 0)
         IN  IF r.how # "no" THEN <<>>
             ELSE (IF r.ok THEN <<points[i]>> ELSE <<>>) \o Accepted(r.t, points, i + 1)

\* qt.InsertAll(points)
InsertAllPoints(points) ==
    /\ Alive
    /\ lastAll.n < MaxInsertAlls
    /\ LET r == InsertAll(qt, points, 1)
       IN  /\ crashed' = r.how
           /\ qt' = IF r.how = "no" THEN r.t ELSE qt
    /\ inserted' = inserted \o Accepted(qt, points, 1)
    /\ lastAll' = [n |-> lastAll.n + 1, points |-> points]
    /\ results' = <<>>
    /\ qbounds' = NoBounds
    /\ UNCHANGED <<lastInsert, moveVars, simVars>>

InitStray == \E ds \in StrayDrivers : InitFrom(ds)

NextStray ==
    \/ NextSim
    \/ \E points \in TestLists : InsertAllPoints(points)

SpecStray == InitStray /\ [][NextStray]_vars

----------------------------------------------------------------------------
(* Properties of the quadtree *)

Count(seq, x) == Cardinality({i \in 1..Len(seq) : seq[i] = x})

Range(seq) == {seq[i] : i \in 1..Len(seq)}

\* the two sequences hold the same elements the same number of times
SameBag(s1, s2) ==
    /\ Len(s1) = Len(s2)
    /\ \A x \in Range(s1) \cup Range(s2) : Count(s1, x) = Count(s2, x)

\* linear scan of the successfully inserted points
BruteForce(b) ==
    SelectSeq(inserted, LAMBDA p : b.MinX <= p.X /\ p.X <= b.MaxX
                                   /\ b.MinY <= p.Y /\ p.Y <= b.MaxY)

Divided(t) == {path \in DOMAIN t : t[path].divided}

\* the leaf (or, in a tree cut short, the last node) an Insert of node descends to
RECURSIVE Reached(_, _, _)
Reached(t, path, node) ==
    IF t[path].divided
    THEN Reached(t, Append(path, childOf(t[path].bounds, node)), node)
    ELSE path

InWorld(p) ==
    /\ TestBounds.MinX <= p.X /\ p.X <= TestBounds.MaxX
    /\ TestBounds.MinY <= p.Y /\ p.Y <= TestBounds.MaxY

\* C1: a query returns exactly the successfully inserted points that lie in
\* the query rectangle, edges included, as a linear scan would.
C1_Containment ==
    qbounds # NoBounds => SameBag(results, BruteForce(qbounds))

\* C1 witness: a query on a subdivided tree, with a window whose edges pass
\* through stored points, returned some of the points and left others out.
C1_Witness ==
    /\ qt[<<>>].divided
    /\ qbounds = Bounds(2 * Scale, 2 * Scale, 4 * Scale, 4 * Scale)
    /\ P(2, 2) \in Range(results)
    /\ P(4, 4) \in Range(results)
    /\ P(1, 1) \in Range(inserted)
    /\ Len(results) < Len(inserted)

\* C2: after any inserts, a query covering the world returns each
\* successfully inserted point exactly as many times as it was inserted, and
\* the nodes of the tree together store exactly those points.
C2_NoLossNoDuplication ==
    /\ qbounds = TestBounds => SameBag(results, inserted)
    /\ \A p \in Range(inserted) :
          Count(inserted, p) =
              Cardinality({<<path, i>> \in
                  UNION {{path} \X (1..Len(qt[path].nodes)) : path \in DOMAIN qt} :
                  qt[path].nodes[i] = p})

\* C2 witness: a world query on a tree that has subdivided at two levels and
\* holds the point (5,5), which lies on both midlines of the root.
C2_Witness ==
    /\ Cardinality(Divided(qt)) >= 2
    /\ qbounds = TestBounds
    /\ P(5, 5) \in Range(results)
    /\ Len(results) = 5

\* C3: an undivided node never holds more than its capacity, and an Insert
\* that descends to a full undivided node leaves that node divided, the new
\* point stored below it.
C3_CapacityInvariant ==
    /\ [](\A path \in DOMAIN qt :
            ~qt[path].divided => Len(qt[path].nodes) <= qt[path].capacity)
    /\ [][(lastInsert'.n # lastInsert.n /\ lastInsert'.ok /\ crashed' = "no") =>
            LET path == Reached(qt, <<>>, lastInsert'.node)
            IN  Len(qt[path].nodes) = qt[path].capacity =>
                    /\ qt'[path].divided
                    /\ qt'[path].nodes = <<>>
                    /\ Len(Reached(qt', <<>>, lastInsert'.node)) > Len(path)]_vars

\* C3 witness: an Insert has just split a full node.
C3_Witness ==
    /\ lastInsert.ok
    /\ Len(inserted) = 5
    /\ qt[<<>>].divided
    /\ \E path \in DOMAIN qt :
          ~qt[path].divided /\ Len(qt[path].nodes) = qt[path].capacity

\* the scenario's first four points, then all five, in call order
Scenario4 == <<P(1, 1), P(2, 2), P(3, 3), P(4, 4)>>
Scenario5 == <<P(1, 1), P(2, 2), P(3, 3), P(4, 4), P(5, 5)>>

\* C6 as stated: on the (0,0)-(10,10) tree of capacity 4 the first four
\* points cause no split, the fifth makes exactly one node divided, and a
\* world query then returns the five points once each.
C6_OneSubdivision ==
    /\ (lastInsert.n = 4 /\ inserted = Scenario4) => Divided(qt) = {}
    /\ (lastInsert.n = 5 /\ inserted = Scenario5) =>
          /\ Cardinality(Divided(qt)) = 1
          /\ qbounds = TestBounds => SameBag(results, Scenario5)

\* C6 amended: the fifth point splits the root and then the root's
\* south-west child, which received all four earlier points; a world query
\* then returns the five points once each.
C6_TwoSubdivisions ==
    /\ (lastInsert.n = 4 /\ inserted = Scenario4) => Divided(qt) = {}
    /\ (lastInsert.n = 5 /\ inserted = Scenario5) =>
          /\ Divided(qt) = {<<>>, <<"southWest">>}
          /\ qbounds = TestBounds => SameBag(results, Scenario5)

\* C6 witness: the five scenario points were inserted and the world queried.
C6_Witness ==
    /\ lastInsert.n = 5
    /\ inserted = Scenario5
    /\ qbounds = TestBounds
    /\ Len(results) = 5

\* C10 as stated: Insert returns false and changes nothing for a point
\* outside the root bounds; for a point inside them, edges included, it
\* returns true and a query containing the point then returns it.
C10_InsertResult ==
    /\ [](lastInsert.n > 0 =>
            IF InWorld(lastInsert.node)
            THEN /\ lastInsert.ok
                 /\ crashed = "no"
                 /\ lastInsert.node \in Range(QueryResults(qt,
                        Bounds(lastInsert.node.X, lastInsert.node.Y,
                               lastInsert.node.X, lastInsert.node.Y)))
            ELSE ~lastInsert.ok)
    /\ [][(lastInsert'.n # lastInsert.n /\ ~InWorld(lastInsert'.node)) =>
            qt' = qt]_vars

\* C21: no subdivision fails to hand a point of the node to a child: the
\* panic of subDivide is never reached, whatever points are inserted.
C21_RedistributionSucceeds == crashed # "panic"

\* C21 witness: Insert has returned after two nested subdivisions, each of
\* which redistributed a full node, and the process is alive.
C21_Witness ==
    /\ crashed = "no"
    /\ lastInsert.ok
    /\ {<<>>, <<"southWest">>} \subseteq Divided(qt)
    /\ \E path \in DOMAIN qt : Len(path) = 2 /\ Len(qt[path].nodes) >= 2

\* C22 as stated: every Insert call returns; none recurses until the stack
\* of its goroutine overflows.
C22_InsertTerminates == crashed # "overflow"

Quadrants == {"northWest", "northEast", "southWest", "southEast"}

\* the places of the tree that hold a point: a node and an index into its nodes
Slots(t, paths) == UNION {{path} \X (1..Len(t[path].nodes)) : path \in paths}

\* C26: a divided node holds no point and has its four children, an
\* undivided node has no child, and every successfully inserted point is
\* held by a leaf, as many times as it was inserted.
C26_PointsOnlyInLeaves ==
    /\ \A path \in DOMAIN qt :
          IF qt[path].divided
          THEN /\ qt[path].nodes = <<>>
               /\ \A c \in Quadrants : Append(path, c) \in DOMAIN qt
          ELSE \A c \in Quadrants : Append(path, c) \notin DOMAIN qt
    /\ \A p \in Range(inserted) :
          Count(inserted, p) =
              Cardinality({s \in Slots(qt, DOMAIN qt \ Divided(qt)) :
                              qt[s[1]].nodes[s[2]] = p})

\* C26 witness: five points were inserted, the root and one of its children
\* have been divided, and the points sit in more than one leaf.
C26_Witness ==
    /\ Len(inserted) = 5
    /\ Cardinality(Divided(qt)) = 2
    /\ Cardinality({path \in DOMAIN qt : qt[path].nodes # <<>>}) >= 2

\* C27: the four children of a divided node quarter it at its midpoint: they
\* share the two midlines, reach to the parent's edges and no further, are
\* rectangles with MinX <= MaxX and MinY <= MaxY, and have the parent's
\* capacity. (In fixed point the midpoint is the half-sum rounded down.)
C27_SubdivisionGeometry ==
    \A path \in Divided(qt) :
        LET b == qt[path].bounds
            nw == qt[Append(path, "northWest")]
            ne == qt[Append(path, "northEast")]
            sw == qt[Append(path, "southWest")]
            se == qt[Append(path, "southEast")]
            mx == sw.bounds.MaxX
            my == sw.bounds.MaxY
        IN  /\ b.MinX + b.MaxX - 2 * mx \in {0, 1}
            /\ b.MinY + b.MaxY - 2 * my \in {0, 1}
            /\ nw.bounds = Bounds(b.MinX, my, mx, b.MaxY)
            /\ ne.bounds = Bounds(mx, my, b.MaxX, b.MaxY)
            /\ sw.bounds = Bounds(b.MinX, b.MinY, mx, my)
            /\ se.bounds = Bounds(mx, b.MinY, b.MaxX, my)
            /\ \A n \in {nw, ne, sw, se} :
                  /\ n.bounds.MinX <= n.bounds.MaxX
                  /\ n.bounds.MinY <= n.bounds.MaxY
                  /\ n.capacity = qt[path].capacity

\* C27 witness: the root and its south-west child are divided; the
\* north-east quarter of that child is the square (2.5,2.5)-(5,5).
C27_Witness ==
    /\ {<<>>, <<"southWest">>} \subseteq Divided(qt)
    /\ qt[<<"southWest", "northEast">>].bounds =
          Bounds((5 * Scale) \div 2, (5 * Scale) \div 2, 5 * Scale, 5 * Scale)
    /\ qt[<<"southWest", "northEast">>].capacity = 4

\* C28: every stored point lies within the bounds of the node that holds it,
\* and at every ancestor of that node the path goes to the child on the side
\* of the point, a point on a midline counting as west and as south.
C28_TieBreak ==
    \A s \in Slots(qt, DOMAIN qt) :
        LET path == s[1]
            p == qt[path].nodes[s[2]]
        IN  /\ contains(qt[path].bounds, p.X, p.Y)
            /\ \A k \in 1..Len(path) :
                  LET anc == SubSeq(path, 1, k - 1)
                      mx == qt[Append(anc, "southWest")].bounds.MaxX
                      my == qt[Append(anc, "southWest")].bounds.MaxY
                  IN  path[k] = IF p.X <= mx
                                THEN IF p.Y <= my THEN "southWest" ELSE "northWest"
                                ELSE IF p.Y <= my THEN "southEast" ELSE "northEast"

\* C28 witness: (5,5), on both midlines of the root, was inserted first and
\* last; the split of the root moved the first into the south-west child,
\* the last was sent there directly, and both went on to that child's
\* north-east quarter, whose corner they are.
C28_Witness ==
    /\ Len(inserted) = 5
    /\ inserted[1] = P(5, 5)
    /\ inserted[5] = P(5, 5)
    /\ <<"southWest", "northEast">> \in DOMAIN qt
    /\ Count(qt[<<"southWest", "northEast">>].nodes, P(5, 5)) = 2

----------------------------------------------------------------------------
(* Properties of Driver.Move *)

\* C5: a driver of NewSimulation stays inside the world, edges included,
\* through any number of Move calls.
C5_BoundaryClamp ==
    /\ minLon <= driver.Lon /\ driver.Lon <= maxLon
    /\ minLat <= driver.Lat /\ driver.Lat <= maxLat

\* C5 witness: Move has brought the driver from the city to the far corner
\* of the world.
C5_Witness ==
    /\ lastMove.called
    /\ driver.Lon = minLon
    /\ driver.Lat = maxLat

\* C7 as stated: one Move of a driver of speed 0, with any deltaTime and any
\* draws, changes neither Lon nor Lat.
C7_ZeroSpeedStays ==
    [][driver.Speed = 0 =>
          /\ driver'.Lon = driver.Lon
          /\ driver'.Lat = driver.Lat]_vars

\* C7 amended: one Move of a driver of speed 0 leaves Lon and Lat unchanged
\* if the speed is still 0 afterwards; otherwise the speed draw fired and the
\* clamp raised the speed to minSpeed. An Offline driver is left as it was.
C7_ZeroSpeedStaysUnlessClamped ==
    [][driver.Speed = 0 =>
          /\ driver'.ID = driver.ID
          /\ driver'.Speed \in {0, minSpeed}
          /\ driver'.Speed = 0 =>
                (driver'.Lon = driver.Lon /\ driver'.Lat = driver.Lat)
          /\ driver.Status = Offline => driver' = driver]_vars

\* C7 witness: a driver of speed 0 after a Move that gave it a new heading.
C7_Witness ==
    /\ lastMove.called
    /\ driver.Speed = 0
    /\ driver.Status # Offline
    /\ driver.Heading \notin {0, 1, 3, 6}

\* C18: a Move of an Offline driver, with any deltaTime and any draws, leaves
\* its Lon and Lat as they were.
C18_OfflineStays ==
    [][driver.Status = Offline =>
          /\ driver'.Lon = driver.Lon
          /\ driver'.Lat = driver.Lat]_vars

\* C18 witness: Move was called on an Offline driver that has a speed and is
\* away from the edges of the world.
C18_Witness ==
    /\ lastMove.called
    /\ lastMove.offline
    /\ driver.Speed > 0
    /\ driver.Lon = cityLon
    /\ driver.Lat = cityLat

\* C23 as stated: after a Move of a driver that is not Offline, the heading
\* points away from every edge of the world the candidate position was near:
\* not westward near the west edge, not eastward near the east edge, not
\* southward near the south edge, not northward near the north edge.
C23_AvoidanceTurnsInward ==
    (lastMove.called /\ ~lastMove.offline) =>
        /\ "west" \in lastMove.near => Sin(driver.Heading) >= 0
        /\ "east" \in lastMove.near => Sin(driver.Heading) <= 0
        /\ "south" \in lastMove.near => Cos(driver.Heading) >= 0
        /\ "north" \in lastMove.near => Cos(driver.Heading) <= 0

\* C24 as stated: the heading of a driver of NewSimulation is in [0, 2*Pi)
\* after any number of Move calls.
C24_HeadingRange == 0 <= driver.Heading /\ driver.Heading < 2 * Pi

\* C25: the speed of a driver of NewSimulation is in [minSpeed, maxSpeed]
\* after any number of Move calls.
C25_SpeedRange == minSpeed <= driver.Speed /\ driver.Speed <= maxSpeed

\* C25 witness: Move has brought a driver, none of which starts at maxSpeed,
\* up to maxSpeed.
C25_Witness ==
    /\ lastMove.called
    /\ ~lastMove.offline
    /\ driver.Speed = maxSpeed
    /\ \A d \in NewDrivers(0) : d.Speed < maxSpeed

----------------------------------------------------------------------------
(* Properties of the Simulation *)

\* the places of the points stored in the nodes of a tree
StoredAt(t) ==
    UNION {{<<path, i>> : i \in 1..Len(t[path].nodes)} : path \in DOMAIN t}

\* C4: a query that is answered while rebuilds run was answered from the
\* published index, which holds a point for every driver and is not the tree
\* a rebuild is still filling; no rebuild holds the lock meanwhile.
C4_RebuildAtomicity ==
    \A p \in Procs :
        proc[p].pc \in ReadPcs =>
            /\ proc[p].from = quadtree.id
            /\ proc[p].from # run.qt.id
            /\ quadtreeMu.w = ""
            /\ Cardinality(StoredAt(quadtree.t)) = numDrivers
            /\ proc[p].nearbyPoints =
                   QueryResults(quadtree.t,
                       searchBounds(proc[p].lon, proc[p].lat, proc[p].radius))

\* C4 witness: a request holds the points it found in the index while
\* RebuildQuadtree waits for the lock.
C4_Witness ==
    /\ proc["h1"].pc \in ReadPcs
    /\ Len(proc["h1"].nearbyPoints) > 0
    /\ proc["run"].pc = "rb_lock"

\* C8: a query of radius 0 returns the points of the published index that
\* are exactly at its center, all of them and no others.
C8_ZeroRadius ==
    \A p \in Procs :
        (proc[p].pc \in ReadPcs /\ proc[p].radius = 0) =>
            /\ \A k \in 1..Len(proc[p].nearbyPoints) :
                  proc[p].nearbyPoints[k] = Pt(proc[p].lon, proc[p].lat)
            /\ Len(proc[p].nearbyPoints) =
                  Cardinality({s \in StoredAt(quadtree.t) :
                      quadtree.t[s[1]].nodes[s[2]] = Pt(proc[p].lon, proc[p].lat)})

\* C8 witness: a query of radius 0 found the driver at its center in an
\* index that has subdivided to hold the other driver too.
C8_Witness ==
    \E p \in Procs :
        /\ proc[p].pc \in ReadPcs
        /\ proc[p].radius = 0
        /\ Len(proc[p].nearbyPoints) = 1
        /\ quadtree.t[<<>>].divided

\* C9 as stated: a request with a negative radius never enters
\* QueryNearbyDrivers, keeps its radius, and is answered InvalidArgument.
C9_NegativeRadiusRejected ==
    \A p \in Handlers :
        proc[p].reqRadius < 0 =>
            /\ proc[p].pc \notin QueryPcs
            /\ proc[p].radius = proc[p].reqRadius
            /\ proc[p].pc = "h_done" => proc[p].resp.err = "InvalidArgument"

\* C12 as stated: RebuildQuadtree never waits for quadtreeMu while a call of
\* QueryNearbyDrivers holds it, and Move never waits for a driver's mu while
\* a call of QueryNearbyDrivers holds it.
C12_QueryNeverBlocks ==
    /\ ~(proc["run"].pc = "rb_lock" /\
            \E p \in quadtreeMu.r : proc[p].pc \in QueryPcs)
    /\ ~(proc["run"].pc = "move" /\
            \E p \in Procs : dmu[run.i] = p /\ proc[p].pc \in QueryPcs)

\* C14: the published quadtree changes only by being replaced, the quadtree
\* that replaces it is the one the rebuild made and filled with a point for
\* every driver, it is newer than every quadtree published before, and the
\* quadtree a rebuild fills is never the published one.
C14_PublishedImmutable ==
    /\ [](run.qt.id # quadtree.id)
    /\ [][/\ quadtree'.id = quadtree.id => quadtree' = quadtree
          /\ quadtree'.id # quadtree.id =>
                /\ quadtree' = run.qt
                /\ quadtree'.id > quadtree.id
                /\ run.i = numDrivers + 1
                /\ Cardinality(StoredAt(quadtree'.t)) = numDrivers]_vars

\* C14 witness: a rebuild has published a quadtree that differs from the
\* one of NewSimulation, which a request had been answered from.
C14_Witness ==
    /\ quadtree.id = 1
    /\ rebuildCount = 1
    /\ run.ticks = 1
    /\ proc["h1"].from = 0
    /\ proc["h1"].pc = "h_respond"

\* C15: a call of QueryNearbyDrivers made after k rebuilds have returned is
\* answered from the quadtree of rebuild k or of a later rebuild.
C15_ReadsLatestRebuild ==
    \A p \in Procs :
        proc[p].pc \in ReadPcs => proc[p].from >= proc[p].epoch

\* C15 witness: a request made after the first rebuild returned holds points
\* of the quadtree which that rebuild published.
C15_Witness ==
    /\ proc["h1"].pc \in ReadPcs
    /\ proc["h1"].epoch = 1
    /\ proc["h1"].from = 1
    /\ Len(proc["h1"].nearbyPoints) > 0

\* the number of times point x is stored in tree t
Stored(t, x) ==
    Cardinality({s \in StoredAt(t) : t[s[1]].nodes[s[2]] = x})

\* the drivers among the first n whose position is x
DriversAt(x, n) ==
    {i \in 1..n : Pt(drivers[i].Lon, drivers[i].Lat) = x}

\* the tree t holds the positions of the first n drivers that lie inside the
\* world, each as many times as drivers stand there, and nothing else
HoldsDriversInWorld(t, n) ==
    /\ \A i \in 1..n :
          LET x == Pt(drivers[i].Lon, drivers[i].Lat)
          IN  Stored(t, x) = IF contains(worldBounds, x.X, x.Y)
                             THEN Cardinality(DriversAt(x, n)) ELSE 0
    /\ Cardinality(StoredAt(t)) =
          Cardinality({i \in 1..n :
              contains(worldBounds, drivers[i].Lon, drivers[i].Lat)})

\* C20: a driver outside the world does not end the rebuild: the loop goes
\* on to the next driver and to the publication, and the quadtree published
\* holds every driver that is inside the world; InsertAll likewise stores
\* every point of its list that is inside the bounds.
C20_RebuildSkipsOutside ==
    /\ [](proc["run"].pc \in {"rb_insert", "rb_publish"} =>
            /\ crashed = "no"
            /\ HoldsDriversInWorld(run.qt.t, run.i - 1))
    /\ [][/\ (proc["run"].pc = "rb_insert" /\ proc'["run"].pc # "rb_insert") =>
                (run.i = numDrivers /\ proc'["run"].pc = "rb_publish")
          /\ quadtree'.id # quadtree.id =>
                (rebuildCount' = rebuildCount + 1 /\
                 HoldsDriversInWorld(quadtree'.t, numDrivers))
          /\ lastAll' # lastAll =>
                /\ crashed' = "no"
                /\ \A x \in Range(lastAll'.points) :
                      Stored(qt', x) = Stored(qt, x) +
                          (IF InWorld(x) THEN Count(lastAll'.points, x) ELSE 0)
                /\ Cardinality(StoredAt(qt')) = Cardinality(StoredAt(qt)) +
                      Len(SelectSeq(lastAll'.points, InWorld))]_vars

\* C20 witness: a rebuild that met the driver outside the world has
\* published a quadtree with the other driver in it, and InsertAll has
\* stored the two points of its list that are inside the bounds.
C20_Witness ==
    /\ quadtree.id = 1
    /\ ~contains(worldBounds, drivers[1].Lon, drivers[1].Lat)
    /\ Cardinality(StoredAt(quadtree.t)) = numDrivers - 1
    /\ lastAll.n = 1
    /\ Cardinality(StoredAt(qt)) = 2
    /\ Len(lastAll.points) = 3

\* x is in the square of half-width radius around (lon, lat), edges included
InSquare(x, lon, lat, radius) ==
    /\ (IF x.X >= lon THEN x.X - lon ELSE lon - x.X) <= radius
    /\ (IF x.Y >= lat THEN x.Y - lat ELSE lat - x.Y) <= radius

\* C29: while a query with radius >= 0 holds the read lock, its result holds
\* every point of the published index that is in the square of half-width
\* radius around its center, as many times as the index stores it, and no
\* other point.
C29_QueryReturnsSquare ==
    \A p \in Procs :
        (proc[p].pc \in ReadPcs /\ proc[p].radius >= 0) =>
            \A x \in Range(proc[p].nearbyPoints)
                     \cup {quadtree.t[s[1]].nodes[s[2]] : s \in StoredAt(quadtree.t)} :
                Count(proc[p].nearbyPoints, x) =
                    IF InSquare(x, proc[p].lon, proc[p].lat, proc[p].radius)
                    THEN Stored(quadtree.t, x) ELSE 0

\* C29 witness: a query of radius searchRadius, answered from a rebuilt index,
\* returned a point on the edge of its square and not the other point of
\* the index.
C29_Witness ==
    \E p \in Procs :
        /\ proc[p].pc \in ReadPcs
        /\ proc[p].radius = searchRadius
        /\ proc[p].from = 1
        /\ Len(proc[p].nearbyPoints) = 1
        /\ proc[p].nearbyPoints[1].X = proc[p].lon - proc[p].radius
        /\ Cardinality(StoredAt(quadtree.t)) = 2

----------------------------------------------------------------------------
(* Properties of the responses and of the accesses to a driver *)

\* C11 as stated: every entry of a response carries the id of the driver
\* whose position was inserted, as the entry's point, into the quadtree the
\* query was answered from.
C11_EntryOfIndexedDriver ==
    \A p \in Handlers :
        \A n \in 1..Len(proc[p].resp.Drivers) :
            LET entry == proc[p].resp.Drivers[n]
            IN  proc[p].src[entry.ID] = Pt(entry.Lon, entry.Lat)

\* C16 as stated: the position, heading, status and speed of every entry of
\* a response are values its driver had together at one instant between
\* Move calls.
C16_EntryFromOneInstant ==
    \A p \in Handlers :
        \A n \in 1..Len(proc[p].resp.Drivers) :
            LET entry == proc[p].resp.Drivers[n]
            IN  \E d \in hist[entry.ID] :
                    /\ d.Lon = entry.Lon
                    /\ d.Lat = entry.Lat
                    /\ Degrees(d.Heading) = entry.Heading
                    /\ d.Status = entry.Status
                    /\ d.Speed = entry.Speed

\* the goroutine holds d.mu inside Move
Writes(p) == p = "run" /\ proc["run"].pc \in MovePcs

\* C17 as stated: a goroutine that calls GetPosition finds d.mu free or held
\* by a Move, never by the GetPosition of another goroutine.
C17_ReadersNeverBlock ==
    /\ \A p \in Handlers :
          proc[p].pc = "c_lock" =>
              (dmu[proc[p].k] = "" \/ Writes(dmu[proc[p].k]))
    /\ proc["run"].pc = "rb_insert" => dmu[run.i] = ""

Stopped == proc["run"].pc = "stopped"

\* C13 as stated: under fair scheduling every operation a goroutine has
\* started completes (or the process ends by the return of Run), and no
\* goroutine waits for a lock while it holds a driver's mu or, holding
\* statsMu, waits for quadtreeMu.
C13_NoIndefiniteBlocking ==
    /\ \A p \in Handlers :
          (proc[p].pc # "idle") ~> (proc[p].pc = "idle" \/ Stopped)
    /\ (proc["run"].pc # "select") ~> (proc["run"].pc = "select" \/ Stopped)
    /\ [](\A p \in Procs :
            /\ (\E i \in 1..numDrivers : dmu[i] = p) =>
                   proc[p].pc \notin {"q_rlock", "q_statsLock", "rb_lock", "c_lock",
                                      "rb_insert", "move"}
            /\ statsMu = p => proc[p].pc \notin {"q_rlock", "rb_lock"})

\* C19 as stated: once the signal is on the channel stop, Run returns; after
\* that nothing moves a driver or replaces the quadtree, no driver's mu is
\* held by Run, and every driver has the values a completed Move left.
C19_CleanShutdown ==
    /\ run.stop ~> Stopped
    /\ [](Stopped =>
            /\ \A i \in 1..numDrivers : dmu[i] # "run" /\ drivers[i] \in hist[i]
            /\ quadtreeMu.w = "")
    /\ [][Stopped => (drivers' = drivers /\ quadtree' = quadtree)]_vars

\* C19 for the runs in which no Insert overflows the stack: Run returns
\* unless the process has died, and the rest is as in C19_CleanShutdown.
C19_CleanShutdownUnlessCrashed ==
    /\ run.stop ~> (Stopped \/ crashed # "no")
    /\ [](Stopped =>
            /\ \A i \in 1..numDrivers : dmu[i] # "run" /\ drivers[i] \in hist[i]
            /\ quadtreeMu.w = "")
    /\ [][Stopped => (drivers' = drivers /\ quadtree' = quadtree)]_vars

\* C13 for the runs in which no Insert overflows the stack: every started
\* operation completes unless the process has died.
C13_NoBlockingUnlessCrashed ==
    /\ \A p \in Handlers :
          (proc[p].pc # "idle") ~> (proc[p].pc = "idle" \/ Stopped \/ crashed # "no")
    /\ (proc["run"].pc # "select") ~>
          (proc["run"].pc = "select" \/ Stopped \/ crashed # "no")

\* the driver stands where it stood after NewSimulation or after one of
\* its Move calls
BetweenMoves(i) ==
    \E d \in hist[i] : d.Lon = drivers[i].Lon /\ d.Lat = drivers[i].Lat

\* C30: a goroutine inside GetPosition holds the driver's mu, as Run does
\* from the first to the last step of a Move, so the two never overlap; and
\* the (Lon, Lat) GetPosition returns is the position the driver had before
\* or after a Move, never the new Lon with the old Lat.
C30_MoveAtomicForReaders ==
    /\ \A p \in Handlers :
          proc[p].pc = "c_pos" =>
              /\ dmu[proc[p].k] = p
              /\ BetweenMoves(proc[p].k)
    /\ proc["run"].pc = "rb_pos" =>
          /\ dmu[run.i] = "run"
          /\ BetweenMoves(run.i)
    /\ proc["run"].pc \in MovePcs => dmu[run.i] = "run"

\* C30 witness: Move has written the new Lon of a driver and not yet its
\* Lat, and a handler that wants the position of that driver is waiting
\* for d.mu.
C30_Witness ==
    \E p \in Handlers :
        /\ proc[p].pc = "c_lock"
        /\ proc[p].k = run.i
        /\ proc["run"].pc = "mv_end"
        /\ ~BetweenMoves(run.i)

----------------------------------------------------------------------------
(* Properties of the Run loop and of the responses                          *)

\* a step of the Run goroutine that is one call driver.Move of its update tick
MoveStep == proc["run"].pc = "move" /\ run'.i = run.i + 1

\* C31: a Move call on a driver changes at most the Lon, Lat, Heading, Speed
\* and Status of that driver: its ID, every other driver, the published
\* quadtree with the positions it was built from, the query statistics and
\* the rebuild count are after the call what they were before it.
C31_MoveFrame ==
    [][MoveStep =>
          /\ drivers'[run.i].ID = drivers[run.i].ID
          /\ \A i \in 1..numDrivers : i # run.i => drivers'[i] = drivers[i]
          /\ quadtree' = quadtree
          /\ stats' = stats
          /\ rebuildCount' = rebuildCount]_vars

\* C31 witness: a driver has moved away from the position the published
\* quadtree has for it, and that quadtree is still the one of NewSimulation.
C31_Witness ==
    \E i \in 1..numDrivers :
        /\ Cardinality(hist[i]) > 1
        /\ quadtree.id = 0
        /\ quadtree.src[i] # Pt(drivers[i].Lon, drivers[i].Lat)
        /\ Stored(quadtree.t, quadtree.src[i]) >= 1
        /\ Stored(quadtree.t, Pt(drivers[i].Lon, drivers[i].Lat)) = 0

\* the drivers that are Offline
OfflineDrivers == {i \in 1..numDrivers : drivers[i].Status = Offline}

\* C32: a driver that is Offline keeps all its fields through every step of
\* the Run loop, its Move calls among them, so it is Offline for good and the
\* set of Offline drivers only grows.
C32_OfflineAbsorbing ==
    [][/\ \A i \in OfflineDrivers : drivers'[i] = drivers[i]
       /\ OfflineDrivers \subseteq OfflineDrivers'
       /\ Cardinality(OfflineDrivers') >= Cardinality(OfflineDrivers)]_vars

\* C32 witness: a driver that a Move of the first update tick turned Offline
\* has been through its Move of the second tick, both drivers are Offline,
\* and the other one was Offline from the start.
C32_Witness ==
    /\ run.ticks = 2
    /\ proc["run"].pc = "select"
    /\ OfflineDrivers = 1..numDrivers
    /\ \E i, j \in 1..numDrivers :
          /\ \E d \in hist[i] : d.Status # Offline
          /\ \A d \in hist[j] : d.Status = Offline

\* positions of the Run goroutine inside RebuildQuadtree
RebuildPcs == {"rb_lock", "rb_insert", "rb_pos", "rb_publish"}

\* the positions of the drivers, as a rebuild that reads them all now would
\* list them
Snapshot == [i \in 1..numDrivers |-> Pt(drivers[i].Lon, drivers[i].Lat)]

\* C33: no driver changes between the start and the end of a
\* RebuildQuadtree call, in which no Move is in progress, and the quadtree
\* the call publishes was built from, and holds, the positions all drivers
\* have at the instant it is published.
C33_RebuildSnapshot ==
    [][/\ proc["run"].pc \in RebuildPcs =>
             /\ drivers' = drivers
             /\ proc'["run"].pc \notin MovePcs \cup {"move"}
       /\ quadtree' # quadtree =>
             /\ proc["run"].pc = "rb_publish"
             /\ quadtree'.src = Snapshot
             /\ HoldsDriversInWorld(quadtree'.t, numDrivers)]_vars

\* C33 witness: the update tick has moved a driver, and the quadtree a
\* rebuild has published since holds the positions of the drivers after that
\* tick.
C33_Witness ==
    /\ quadtree.id = 1
    /\ quadtree.src = Snapshot
    /\ \E i \in 1..numDrivers :
          /\ \E d \in hist[i] : Pt(d.Lon, d.Lat) # Snapshot[i]
          /\ Stored(quadtree.t, Snapshot[i]) >= 1

\* the drivers whose position was read as x for the published quadtree
BuiltAt(x) == {i \in 1..Len(quadtree.src) : quadtree.src[i] = x}

\* C34: the published quadtree, that of NewSimulation and that of every
\* rebuild, was built from one position of every driver and stores
\* numDrivers points: each of these positions, as many times as drivers
\* were read there.
C34_OnePointPerDriver ==
    /\ Len(quadtree.src) = numDrivers
    /\ Cardinality(StoredAt(quadtree.t)) = numDrivers
    /\ \A i \in 1..numDrivers :
          Stored(quadtree.t, quadtree.src[i]) = Cardinality(BuiltAt(quadtree.src[i]))

\* C34 witness: a rebuild has published a quadtree that holds the position
\* an Offline driver has had from the start and the position Move has taken
\* the other driver to.
C34_Witness ==
    /\ quadtree.id = 1
    /\ Cardinality(StoredAt(quadtree.t)) = numDrivers
    /\ \E i, j \in 1..numDrivers :
          /\ drivers[i].Status = Offline
          /\ Stored(quadtree.t, Pt(drivers[i].Lon, drivers[i].Lat)) = 1
          /\ \A d \in hist[j] : d.Status # Offline
          /\ Cardinality({Pt(d.Lon, d.Lat) : d \in hist[j]}) = 2
          /\ Stored(quadtree.t, Pt(drivers[j].Lon, drivers[j].Lat)) = 1

\* C35 as stated: a response that is sent has one entry for each point the
\* query returned, no driver id in two of its entries, and a count that is
\* the number of its entries.
C35_ResponseComplete ==
    \A p \in Handlers :
        proc[p].pc = "h_done" =>
            LET entries == proc[p].resp.Drivers
            IN  /\ Len(entries) = Len(proc[p].nearbyPoints)
                /\ \A m, n \in 1..Len(entries) :
                      entries[m].ID = entries[n].ID => m = n
                /\ proc[p].resp.Count = Len(entries)

\* the QueryNearbyDrivers calls of goroutine p that have stored their counts
Counted(p) ==
    (IF p = "run" THEN run.queries ELSE proc[p].n)
        - (IF proc[p].pc \in UncountedPcs THEN 1 ELSE 0)

RECURSIVE SumCounted(_)
SumCounted(ps) ==
    IF ps = {} THEN 0
    ELSE LET p == CHOOSE q \in ps : TRUE
         IN  Counted(p) + SumCounted(ps \ {p})

\* C36: TotalQueries is the number of QueryNearbyDrivers calls that have
\* got past their update of the counters, and every change of s.stats is
\* made by one call at the end of that update and adds 1 to TotalQueries and
\* the length of the call's result to TotalDriversFound.
C36_CountersExact ==
    /\ [](stats.TotalQueries = SumCounted(Procs))
    /\ [][stats' # stats =>
             \E p \in Procs :
                 /\ proc[p].pc = "q_store"
                 /\ proc'[p].pc = "q_runlock"
                 /\ stats'.TotalQueries = stats.TotalQueries + 1
                 /\ stats'.TotalDriversFound =
                        stats.TotalDriversFound + Len(proc[p].nearbyPoints)]_vars

\* C36 witness: two calls are inside QueryNearbyDrivers at once, each with a
\* result that is not empty; one has been counted, the other has loaded the
\* counters the first one stored.
C36_Witness ==
    \E p, q \in Procs :
        /\ proc[p].pc = "q_runlock"
        /\ proc[q].pc = "q_store"
        /\ Len(proc[p].nearbyPoints) >= 1
        /\ Len(proc[q].nearbyPoints) >= 1
        /\ stats = [TotalQueries |-> 1, TotalDriversFound |-> Len(proc[p].nearbyPoints)]
        /\ proc[q].loaded = stats

\* the goroutines inside conn.WriteMessage of the client
Writing == {p \in Procs : proc[p].pc = "s_write"}

\* C37 as stated: at most one goroutine is inside conn.WriteMessage of a
\* client at any time.
C37_WritesExclusive == Cardinality(Writing) <= 1

\* the positions of a goroutine that has the slice QueryResults returned
ReturnedPcs == {"p_put", "q_statsLock", "q_stats", "q_runlock", "h_respond", "h_done"}

\* C38: a buffer taken from resultsPool is not in the pool and is held by no
\* other call until it is put back, and the slice a QueryResults call
\* returns holds the points of that call's bounds in the published quadtree,
\* and goes on holding them while other calls use the buffer it was copied
\* from.
C38_BuffersNotShared ==
    /\ \A p \in Procs :
          proc[p].pc \in PoolPcs =>
              /\ proc[p].buf \in 1..Len(resultsPool.data)
              /\ proc[p].buf \notin resultsPool.free
              /\ \A q \in Procs \ {p} :
                    proc[q].pc \in PoolPcs => proc[q].buf # proc[p].buf
    /\ \A p \in Procs :
          proc[p].pc \in ReturnedPcs =>
              proc[p].nearbyPoints =
                  QueryResults(quadtree.t,
                      searchBounds(proc[p].lon, proc[p].lat, proc[p].radius))

\* C38 witness: a call holds the slice it returned, with a point in it, and
\* another call, whose bounds hold other points, has taken the buffer the
\* first one used and has written over that point.
C38_Witness ==
    \E p, q \in Procs :
        /\ proc[p].pc \in ReturnedPcs \ {"p_put"}
        /\ Len(proc[p].nearbyPoints) >= 1
        /\ proc[q].pc = "p_append"
        /\ proc[q].len >= 1
        /\ resultsPool.data[proc[q].buf][1] # proc[p].nearbyPoints[1]
        /\ Len(resultsPool.data) = 1

====
